---- MODULE Spec2Model ----
(***************************************************************************)
(* Listing lock manager, additive merge engine and listing handlers of     *)
(* server.js.                                                              *)
(*                                                                         *)
(* A JavaScript object is a function whose DOMAIN is the set of its own    *)
(* property names; a missing property is a name outside the DOMAIN.        *)
(* Scalar property values are strings; Null stands for JavaScript null.    *)
(* An array is a sequence.  A local image path                             *)
(* "/downloads/<folder>/images/<file>" is the pair <<folder, file>>.       *)
(***************************************************************************)
EXTENDS Integers, Sequences, FiniteSets, TLC

VARIABLES
    now,            \* Date.now(), in ms
    listingLocks,   \* the listingLocks Map: listing id -> acquisition time
    lastSweep,      \* time at which the setInterval callback last ran
    req,            \* the in-flight HTTP requests and their local variables
    disk,           \* downloads/<folder>/metadata.json, by folder
    backup,         \* downloads/<folder>/metadata.json.backup, by folder
    lastStatus,     \* the status of the HTTP response sent last
    completed,      \* per listing id: additive merges persisted since creation
    existing,       \* merge engine: the stored listing handed to the merge
    newData,        \* merge engine: the incoming scrape
    result,         \* merge engine: the value returned by the merge
    again,          \* merge engine: the merge applied once more to result
    phase,          \* merge engine: which of the above have been computed
    url,            \* normalizeUrl: the argument
    normalizedUrl,  \* normalizeUrl: the value returned for url
    normalizedTracked, \* normalizeUrl: the value returned for url + "?utm_source=x"
    leftStored,    \* unification: the stored listing found for leftId
    rightStored,   \* unification: the stored listing found for rightId
    mergedBody,     \* unification: the merged object of the request body
    unified,        \* unification: the mergedMetadata object built
    unifyStatus,    \* unification: the status of the last response, 0 before any
    copyThrew,      \* unification: a copyFileSync of the last request threw
    unifiedFiles,   \* unification: images/ of the unified folder, file name -> the
                    \* source file whose bytes the file holds
    requestImages,  \* image similarity: the images array of the requests
    analyses,       \* image similarity: threshold -> what analyzeImageSimilarity returned
    dedupes,        \* image similarity: threshold -> what deduplicateImages returned
    clipAnalyses,   \* image similarity: threshold -> what analyzeImageSimilarityCLIP returned
    clipPipeline,   \* CLIP: the loaded pipeline, null when there is none
    clipModelLoading, \* CLIP: a load is in progress
    clipModelFailed,  \* CLIP: the load failed
    loadsStarted,   \* CLIP: how often the load of the model has been started
    callers,        \* CLIP: the callers of getClipPipeline and where they are
    fsFiles,        \* paths: the files there are, as resolved paths
    storedLocals,   \* paths: the local paths of metadata.images of the stored listing
    touched,        \* paths: the file operations of the last handler
    listingImages,  \* re-scrape: metadata.images of the stored listing
    keptImages,     \* re-scrape: metadata.images as read before the last update
    imageFiles,     \* re-scrape: images/ of the listing's folder, file name -> the
                    \* URL whose picture the file holds
    updates         \* re-scrape: how many updates have been answered

vars == <<now, listingLocks, lastSweep, req, lastStatus, disk, backup, completed,
          existing, newData, result, again, phase,
          url, normalizedUrl, normalizedTracked,
          leftStored, rightStored, mergedBody, unified, unifyStatus, copyThrew,
          unifiedFiles,
          requestImages, analyses, dedupes, clipAnalyses,
          clipPipeline, clipModelLoading, clipModelFailed, loadsStarted, callers,
          fsFiles, storedLocals, touched,
          listingImages, keptImages, imageFiles, updates>>

lockVars  == <<now, listingLocks, lastSweep, req, lastStatus>>
storeVars == <<disk, backup, completed>>
mergeVars == <<existing, newData, result, again, phase>>
urlVars   == <<url, normalizedUrl, normalizedTracked>>
unifyVars == <<leftStored, rightStored, mergedBody, unified, unifyStatus, copyThrew,
               unifiedFiles>>
dedupVars == <<requestImages, analyses, dedupes, clipAnalyses>>
clipVars  == <<clipPipeline, clipModelLoading, clipModelFailed, loadsStarted, callers>>
pathVars  == <<fsFiles, storedLocals, touched>>
rescrapeVars == <<listingImages, keptImages, imageFiles, updates>>
toolVars  == <<urlVars, unifyVars, dedupVars, clipVars, pathVars, rescrapeVars>>

(***************************************************************************)
(* Bounds of the model.                                                    *)
(***************************************************************************)
MaxLen == 2        \* longest array of strings or of images fed to a merge
MaxMerges == 2     \* merges folded into one listing in the merge engine
MaxIntervals == 2  \* the clock stops after this many sweep intervals
MaxFine == 1       \* 100 ms steps of the clock after each multiple of the sweep interval
MaxUpdates == 2    \* re-scrape updates folded into one stored listing
MaxSegments == 2   \* path segments of a URL handed to normalizeUrl

(***************************************************************************)
(* JavaScript values.                                                      *)
(***************************************************************************)
Null == "<null>"
EmptyObject == [k \in {} |-> Null]

Has(obj, f) == f \in DOMAIN obj

\* obj[f] = v
Put(obj, f, v) == [k \in DOMAIN obj \cup {f} |-> IF k = f THEN v ELSE obj[k]]

\* delete obj[f]; also what JSON.stringify does to a property set to undefined
Drop(obj, f) == [k \in DOMAIN obj \ {f} |-> obj[k]]

\* obj[f] || [] for an array property
ArrayOf(obj, f) == IF Has(obj, f) THEN obj[f] ELSE <<>>

\* a string property is truthy
Truthy(obj, f) == Has(obj, f) /\ obj[f] # Null /\ obj[f] # ""

Range(s) == {s[i] : i \in 1..Len(s)}

\* Array.from(new Set(s)): first occurrences, in order
RECURSIVE ArrayFromSet(_)
ArrayFromSet(s) ==
    IF s = <<>> THEN <<>>
    ELSE LET front == ArrayFromSet(SubSeq(s, 1, Len(s) - 1))
             last  == s[Len(s)]
         IN  IF last \in Range(front) THEN front ELSE Append(front, last)

(***************************************************************************)
(* mergeImages                                                             *)
(***************************************************************************)
\* img.original || img.local; <<>> when both are falsy
ImageKey(img) ==
    IF Truthy(img, "original") THEN <<img.original>>
    ELSE IF Has(img, "local") THEN img.local
    ELSE <<>>

\* imageMap.set(key, img) on a Map kept as a sequence of [key, img] entries:
\* an existing key keeps its position and takes the new value
MapSet(m, key, img) ==
    IF \E i \in 1..Len(m) : m[i].key = key
    THEN [i \in 1..Len(m) |-> IF m[i].key = key THEN [key |-> key, img |-> img] ELSE m[i]]
    ELSE Append(m, [key |-> key, img |-> img])

MapHas(m, key) == \E i \in 1..Len(m) : m[i].key = key

RECURSIVE AddExistingImages(_, _)
AddExistingImages(m, imgs) ==
    IF imgs = <<>> THEN m
    ELSE LET img == Head(imgs)
             key == ImageKey(img)
         IN  AddExistingImages(IF key # <<>> THEN MapSet(m, key, img) ELSE m, Tail(imgs))

RECURSIVE AddNewImages(_, _)
AddNewImages(m, imgs) ==
    IF imgs = <<>> THEN m
    ELSE LET img == Head(imgs)
             key == ImageKey(img)
         IN  AddNewImages(IF key # <<>> /\ ~MapHas(m, key) THEN MapSet(m, key, img) ELSE m,
                          Tail(imgs))

mergeImages(existingImages, newImages) ==
    LET imageMap == AddNewImages(AddExistingImages(<<>>, existingImages), newImages)
    IN  [i \in 1..Len(imageMap) |-> imageMap[i].img]

(***************************************************************************)
(* mergeMetadataAdditive                                                   *)
(***************************************************************************)
protectedStringFields ==
    <<"id", "title", "description", "location", "address", "city", "country",
      "propertyType", "hostName", "hostAvatar", "hostAbout", "hostSuperhost",
      "hostJoined", "sourceUrl", "platform", "currency", "pricePerNight",
      "originalPrice", "cleaningFee", "serviceFee", "guests", "bedrooms",
      "beds", "bathrooms", "rating", "reviewCount", "checkIn", "checkOut",
      "responseRate", "responseTime", "cancellationPolicy", "coordinates">>

\* existingValue === null || existingValue === undefined || existingValue === ''
IsEmptyValue(obj, f) == ~Truthy(obj, f)

\* a merge that lets every non-empty incoming value win
RECURSIVE FillProtectedOverwriting(_, _, _, _)
FillProtectedOverwriting(res, old, new, i) ==
    IF i > Len(protectedStringFields) THEN res
    ELSE LET field == protectedStringFields[i]
         IN  FillProtectedOverwriting(IF ~IsEmptyValue(new, field)
                                      THEN Put(res, field, new[field])
                                      ELSE res,
                                      old, new, i + 1)

RECURSIVE FillProtected(_, _, _, _)
FillProtected(res, old, new, i) ==
    IF i > Len(protectedStringFields) THEN res
    ELSE LET field == protectedStringFields[i]
         IN  FillProtected(IF IsEmptyValue(old, field) /\ ~IsEmptyValue(new, field)
                           THEN Put(res, field, new[field])
                           ELSE res,
                           old, new, i + 1)

\* new Set(existing.f || []) followed by add() of every new item
UnionArray(old, new, f) == ArrayFromSet(ArrayOf(old, f) \o ArrayOf(new, f))

CollectionFields == {"amenities", "houseRules", "highlights", "safetyItems"}

\* existing.firstScrapedAt || existing.scrapedAt
FirstScrapedAt(old, res) ==
    IF Has(old, "firstScrapedAt") THEN Put(res, "firstScrapedAt", old.firstScrapedAt)
    ELSE IF Has(old, "scrapedAt") THEN Put(res, "firstScrapedAt", old.scrapedAt)
    ELSE Drop(res, "firstScrapedAt")

\* a merge that restarts the count at every merge
UpdateCountRestarted(obj) == 0

\* existing.updateCount || 0
UpdateCountOf(obj) == IF Has(obj, "updateCount") THEN obj.updateCount ELSE 0

mergeMetadataAdditive(old, new) ==
    LET r1 == FillProtected(old, old, new, 1)
        r2 == [k \in DOMAIN r1 \cup CollectionFields \cup {"images"} |->
                 IF k = "images" THEN mergeImages(ArrayOf(old, "images"), ArrayOf(new, "images"))
                 ELSE IF k \in CollectionFields THEN UnionArray(old, new, k)
                 ELSE r1[k]]
        r3 == FirstScrapedAt(old, r2)
        r4 == Put(r3, "lastUpdatedAt", now)
        r5 == Put(r4, "updateCount", UpdateCountOf(old) + 1)
    IN  Put(r5, "updateHistory", Append(ArrayOf(old, "updateHistory"), [date |-> now]))

(***************************************************************************)
(* mergeWithExistingListing: the merge of a new scrape (newMetadata, in    *)
(* its own folder) into the stored listing of the same URL.  srcMissing    *)
(* are the new image files that do not exist, failing those whose          *)
(* copyFileSync throws.                                                    *)
(***************************************************************************)
\* new Set(existingImages.map(img => img.original || img.local))
ImageKeys(imgs) == {ImageKey(imgs[i]) : i \in 1..Len(imgs)}

\* the files already in the images directory of the folder
FilesIn(folder, imgs) ==
    {imgs[i].local[2] : i \in {j \in 1..Len(imgs) : Has(imgs[j], "local") /\ imgs[j].local[1] = folder}}

\* { local: `/downloads/${existingFolder}/images/${filename}`, original: newImg.original }
CopiedEntry(existingFolder, newImg) ==
    LET entry == [local |-> <<existingFolder, newImg.local[2]>>]
    IN  IF Has(newImg, "original") THEN Put(entry, "original", newImg.original) ELSE entry

RECURSIVE CopyNewImages(_, _, _, _, _, _, _)
CopyNewImages(acc, dest, existingImageUrls, existingFolder, newImages, srcMissing, failing) ==
    IF newImages = <<>> THEN acc
    ELSE LET newImg == Head(newImages)
             rest   == Tail(newImages)
             wanted == /\ ImageKey(newImg) \notin existingImageUrls
                       /\ Has(newImg, "local")
                       /\ newImg.local \notin srcMissing
             copies == wanted /\ newImg.local[2] \notin dest
             thrown == copies /\ newImg.local \in failing
         IN  IF wanted /\ ~thrown
             THEN CopyNewImages(Append(acc, CopiedEntry(existingFolder, newImg)),
                                dest \cup {newImg.local[2]},
                                existingImageUrls, existingFolder, rest, srcMissing, failing)
             ELSE CopyNewImages(acc, dest, existingImageUrls, existingFolder, rest,
                                srcMissing, failing)

mergeIntoExisting(existingListing, existingFolder, newMetadata, srcMissing, failing) ==
    LET existingImages == ArrayOf(existingListing, "images")
        images == CopyNewImages(existingImages, FilesIn(existingFolder, existingImages),
                                ImageKeys(existingImages), existingFolder,
                                ArrayOf(newMetadata, "images"), srcMissing, failing)
        m1 == Put(existingListing, "images", images)
        m2 == Put(m1, "amenities", UnionArray(existingListing, newMetadata, "amenities"))
        m3 == Put(m2, "houseRules", UnionArray(existingListing, newMetadata, "houseRules"))
        m4 == Put(m3, "lastUpdated", now)
        m5 == IF ~Truthy(existingListing, "title") /\ Truthy(newMetadata, "title")
              THEN Put(m4, "title", newMetadata.title) ELSE m4
    IN  IF ~Truthy(existingListing, "description") /\ Truthy(newMetadata, "description")
        THEN Put(m5, "description", newMetadata.description) ELSE m5

(***************************************************************************)
(* normalizeUrl (inside mergeWithExistingListing) and the part of          *)
(* new URL(string) it relies on: strings are parsed character by character.*)
(***************************************************************************)
StartsWith(str, prefix) ==
    Len(str) >= Len(prefix) /\ SubSeq(str, 1, Len(prefix)) = prefix

\* the position of the first character of str, from position i on, that is one
\* of stops; Len(str) + 1 if there is none
RECURSIVE FirstOf(_, _, _)
FirstOf(str, stops, i) ==
    IF i > Len(str) THEN Len(str) + 1
    ELSE IF SubSeq(str, i, i) \in stops THEN i
    ELSE FirstOf(str, stops, i + 1)

UrlScheme(str) ==
    IF StartsWith(str, "https://") THEN "https://"
    ELSE IF StartsWith(str, "http://") THEN "http://"
    ELSE ""

\* new URL(str) for the strings of the model: an http(s) URL with a non-empty
\* host parses; a string without a scheme or without a host makes new URL throw
UrlHostEnd(str) == FirstOf(str, {"/", "?", "#"}, Len(UrlScheme(str)) + 1)

UrlParses(str) == UrlScheme(str) # "" /\ UrlHostEnd(str) > Len(UrlScheme(str)) + 1

\* u.origin
UrlOrigin(str) == SubSeq(str, 1, UrlHostEnd(str) - 1)

\* u.pathname: up to the query or the fragment, "/" when the string has no path
UrlPathname(str) ==
    LET from == UrlHostEnd(str)
        to   == FirstOf(str, {"?", "#"}, from) - 1
    IN  IF to < from THEN "/" ELSE SubSeq(str, from, to)

\* pathname.replace(/\/$/, '')
StripTrailingSlash(pathname) ==
    IF Len(pathname) > 0 /\ SubSeq(pathname, Len(pathname), Len(pathname)) = "/"
    THEN SubSeq(pathname, 1, Len(pathname) - 1)
    ELSE pathname

\* a normalizeUrl that keeps the query string
normalizeUrlKeepingSearch(str) ==
    IF UrlParses(str)
    THEN SubSeq(str, 1, FirstOf(str, {"#"}, 1) - 1)
    ELSE str

normalizeUrl(str) ==
    IF UrlParses(str)
    THEN UrlOrigin(str) \o StripTrailingSlash(UrlPathname(str))
    ELSE str

\* strings handed to normalizeUrl
UrlStarts == {"https://airbnb.com", "http://booking.com", "airbnb.com", "https://", ""}
UrlSegments == {"/", "/rooms", "/1"}
UrlTails == {"", "?check_in=1", "#photos", "?a=1#b", "#b?a=1"}

RECURSIVE UrlPaths(_)
UrlPaths(n) ==
    IF n = 0 THEN {""}
    ELSE UrlPaths(n - 1) \cup {p \o seg : p \in UrlPaths(n - 1), seg \in UrlSegments}

UrlStrings == {start \o p \o tail : start \in UrlStarts, p \in UrlPaths(MaxSegments), tail \in UrlTails}

InitUrlIdle ==
    /\ url = Null
    /\ normalizedUrl = Null
    /\ normalizedTracked = Null

InitUnifyIdle ==
    /\ leftStored = EmptyObject
    /\ rightStored = EmptyObject
    /\ mergedBody = EmptyObject
    /\ unified = EmptyObject
    /\ unifyStatus = 0
    /\ copyThrew = FALSE
    /\ unifiedFiles = EmptyObject

InitDedupIdle ==
    /\ requestImages = <<>>
    /\ analyses = EmptyObject
    /\ dedupes = EmptyObject
    /\ clipAnalyses = EmptyObject

\* the callers of getClipPipeline: the preload at startup and two requests
ClipCallers == {"preload", "q1", "q2"}

\* a caller that has not called
NotCalling == [pc |-> "idle", images |-> Null, waited |-> FALSE, value |-> Null,
               response |-> EmptyObject]

\* the module has just been loaded
InitClipIdle ==
    /\ clipPipeline = Null
    /\ clipModelLoading = FALSE
    /\ clipModelFailed = FALSE
    /\ loadsStarted = 0
    /\ callers = [c \in ClipCallers |-> NotCalling]

\* no file, no stored image, no file operation
InitPathIdle ==
    /\ fsFiles = {}
    /\ storedLocals = <<>>
    /\ touched = {}

\* no listing has been scraped
InitRescrapeIdle ==
    /\ listingImages = <<>>
    /\ keptImages = <<>>
    /\ imageFiles = EmptyObject
    /\ updates = 0

InitToolsIdle ==
    /\ InitUrlIdle /\ InitUnifyIdle /\ InitDedupIdle /\ InitClipIdle /\ InitPathIdle
    /\ InitRescrapeIdle


(***************************************************************************)
(* Inputs of the merge engine: stored listings and incoming scrapes.       *)
(***************************************************************************)
Items == {"WiFi", "Pool"}

\* arrays of at most n elements of S
RECURSIVE ArraysUpTo(_, _)
ArraysUpTo(S, n) ==
    IF n = 0 THEN {<<>>}
    ELSE LET shorter == ArraysUpTo(S, n - 1)
         IN  shorter \cup {Append(a, x) : a \in shorter, x \in S}

\* image entries as the scrapers write them ({original, local}), as unification
\* writes them when the request gave no original, and as an edit may store them
ImageEntries ==
    { [original |-> "https://img/1", local |-> <<"L1", "image_1.jpg">>],
      [original |-> "https://img/1", local |-> <<"L1", "image_2.jpg">>],
      [original |-> "https://img/2", local |-> <<"L1", "image_3.jpg">>],
      [local |-> <<"L1", "image_1.jpg">>] }

\* every downloaded image has a file of its own
DistinctFiles(imgs) == \A i, j \in 1..Len(imgs) : i # j => imgs[i].local # imgs[j].local

Titles == {Null, "", "Ocean View Villa", "Beach House"}
Hosts == {"host-1", "host-2"}

\* what one scrape may carry: nothing, one scalar, or one array
Payloads ==
    {EmptyObject}
    \cup {[title |-> t] : t \in Titles}
    \cup {[host |-> h] : h \in Hosts}
    \cup {[k \in {f} |-> a] : f \in CollectionFields, a \in ArraysUpTo(Items, MaxLen)}
    \cup {[images |-> a] : a \in {b \in ArraysUpTo(ImageEntries, MaxLen) : DistinctFiles(b)}}

\* the properties every stored listing has from the scraper that created it
BaseListing == [id |-> "L1", platform |-> "airbnb", sourceUrl |-> "https://airbnb.com/rooms/1",
                scrapedAt |-> 0]

(***************************************************************************)
(* Initial state.                                                          *)
(***************************************************************************)
InitLock ==
    /\ now = 0
    /\ listingLocks = EmptyObject
    /\ lastSweep = 0
    /\ req = EmptyObject
    /\ lastStatus = 0

InitStore ==
    /\ disk = EmptyObject
    /\ backup = EmptyObject
    /\ completed = EmptyObject

InitMergeIdle ==
    /\ existing = EmptyObject
    /\ newData = EmptyObject
    /\ result = EmptyObject
    /\ again = EmptyObject
    /\ phase = "idle"

(***************************************************************************)
(* The merge engine as a state machine: a stored listing and an incoming   *)
(* scrape are merged, the same scrape is merged once more, and the result  *)
(* is folded into the next merge.                                          *)
(***************************************************************************)
\* the stored listing and the scrape carry the same property, or one of them
\* carries none
InitMerge ==
    /\ \E p, q \in Payloads :
          /\ DOMAIN p = DOMAIN q \/ p = EmptyObject \/ q = EmptyObject
          /\ existing = p @@ BaseListing
          /\ newData = q
    /\ result = EmptyObject
    /\ again = EmptyObject
    /\ phase = "input"

Merge ==
    /\ phase = "input"
    /\ result' = mergeMetadataAdditive(existing, newData)
    /\ phase' = "merged"
    /\ UNCHANGED <<existing, newData, again>>

MergeAgain ==
    /\ phase = "merged"
    /\ again' = mergeMetadataAdditive(result, newData)
    /\ phase' = "again"
    /\ UNCHANGED <<existing, newData, result>>

\* the merged listing becomes the stored listing of the next re-scrape, which
\* carries the same properties as the last one
Fold ==
    /\ phase \in {"merged", "again"}
    /\ LET stored == IF phase = "merged" THEN result ELSE again
       IN  /\ UpdateCountOf(stored) < MaxMerges
           /\ existing' = stored
    /\ \E p \in Payloads : DOMAIN p = DOMAIN newData /\ newData' = p
    /\ result' = EmptyObject
    /\ again' = EmptyObject
    /\ phase' = "input"

\* the images of a scrape as the scraper stores them in the scrape's own folder
InFolder(folder, imgs) ==
    [i \in 1..Len(imgs) |->
        IF Has(imgs[i], "local") THEN Put(imgs[i], "local", <<folder, imgs[i].local[2]>>)
        ELSE imgs[i]]

NewScrape(p) == IF Has(p, "images") THEN Put(p, "images", InFolder("N1", p.images)) ELSE p

LocalPaths(imgs) == {imgs[i].local : i \in {j \in 1..Len(imgs) : Has(imgs[j], "local")}}

AtMostOne(S) == {{}} \cup {{x} : x \in S}

\* the scrape is merged into the stored listing by the scrape handler's helper
ScrapeMerge ==
    /\ phase = "input"
    /\ LET newMetadata == NewScrape(newData)
           paths == LocalPaths(ArrayOf(newMetadata, "images"))
       IN  \E srcMissing \in AtMostOne(paths), failing \in AtMostOne(paths) :
              result' = mergeIntoExisting(existing, existing.id, newMetadata, srcMissing, failing)
    /\ phase' = "scrapeMerged"
    /\ UNCHANGED <<existing, newData, again>>

MergeNext ==
    \/ Merge /\ UNCHANGED <<lockVars, storeVars, toolVars>>
    \/ MergeAgain /\ UNCHANGED <<lockVars, storeVars, toolVars>>
    \/ Fold /\ UNCHANGED <<lockVars, storeVars, toolVars>>
    \/ ScrapeMerge /\ UNCHANGED <<lockVars, storeVars, toolVars>>

MergeInit == InitLock /\ InitStore /\ InitMerge /\ InitToolsIdle

MergeSpec == MergeInit /\ [][MergeNext]_vars

(***************************************************************************)
(* normalizeUrl applied to a string and to the string with a tracking      *)
(* query appended.                                                         *)
(***************************************************************************)
InitUrl ==
    /\ url \in UrlStrings
    /\ normalizedUrl = Null
    /\ normalizedTracked = Null

Normalize ==
    /\ normalizedUrl = Null
    /\ normalizedUrl' = normalizeUrl(url)
    /\ UNCHANGED <<url, normalizedTracked>>

NormalizeTracked ==
    /\ normalizedTracked = Null
    /\ normalizedTracked' = normalizeUrl(url \o "?utm_source=x")
    /\ UNCHANGED <<url, normalizedUrl>>

UrlNext ==
    \/ Normalize /\ UNCHANGED <<lockVars, storeVars, mergeVars, unifyVars, dedupVars, clipVars, pathVars, rescrapeVars>>
    \/ NormalizeTracked /\ UNCHANGED <<lockVars, storeVars, mergeVars, unifyVars, dedupVars, clipVars, pathVars, rescrapeVars>>

UrlInit ==
    /\ InitLock /\ InitStore /\ InitMergeIdle
    /\ InitUrl /\ InitUnifyIdle /\ InitDedupIdle /\ InitClipIdle /\ InitPathIdle /\ InitRescrapeIdle

UrlSpec == UrlInit /\ [][UrlNext]_vars

(***************************************************************************)
(* The listing lock: acquireListingLock, releaseListingLock and the        *)
(* periodic sweep of stale locks.                                          *)
(***************************************************************************)
LOCK_TIMEOUT_MS == 30000
POLL_MS == 100
STALE_LOCK_MS == 60000
SWEEP_INTERVAL_MS == 30000

ListingIds == {"L1"}
\* the HTTP requests that may be in flight at the same time
Reqs == {"r1", "r2"}

\* a request slot with no request in flight
Idle ==
    [kind |-> "none", id |-> "none", pc |-> "idle", startTime |-> 0, wakeAt |-> 0,
     holds |-> FALSE, body |-> EmptyObject, metadata |-> EmptyObject, folder |-> "none",
     backedUp |-> FALSE, before |-> EmptyObject]

\* listingLocks.set(listingId, Date.now())
LockSet(locks, id) == Put(locks, id, now)

\* listingLocks.delete(listingId)
releaseListingLock(locks, id) == Drop(locks, id)

\* an acquire that gives up as soon as the time allowed has been reached
LoopHeadEager(r, rec) ==
    IF Has(listingLocks, rec.id)
    THEN IF now - rec.startTime >= LOCK_TIMEOUT_MS
         THEN /\ req' = [req EXCEPT ![r] = Idle]
              /\ lastStatus' = 409
              /\ UNCHANGED listingLocks
         ELSE /\ req' = [req EXCEPT ![r] = [rec EXCEPT !.pc = "sleeping", !.wakeAt = now + POLL_MS]]
              /\ UNCHANGED <<listingLocks, lastStatus>>
    ELSE /\ listingLocks' = LockSet(listingLocks, rec.id)
         /\ req' = [req EXCEPT ![r] = [rec EXCEPT !.pc = "find", !.holds = TRUE,
                                                   !.startTime = 0, !.wakeAt = 0]]
         /\ UNCHANGED lastStatus

\* one pass of the while loop of acquireListingLock, from its head to the next
\* await or to its return; the handler's catch answers a timeout with 409
LoopHead(r, rec) ==
    IF Has(listingLocks, rec.id)
    THEN IF now - rec.startTime > LOCK_TIMEOUT_MS
         THEN /\ req' = [req EXCEPT ![r] = Idle]
              /\ lastStatus' = 409
              /\ UNCHANGED listingLocks
         ELSE /\ req' = [req EXCEPT ![r] = [rec EXCEPT !.pc = "sleeping", !.wakeAt = now + POLL_MS]]
              /\ UNCHANGED <<listingLocks, lastStatus>>
    ELSE /\ listingLocks' = LockSet(listingLocks, rec.id)
         /\ req' = [req EXCEPT ![r] = [rec EXCEPT !.pc = "find", !.holds = TRUE,
                                                   !.startTime = 0, !.wakeAt = 0]]
         /\ UNCHANGED lastStatus

\* a handler that releases the lock only when it answers with success
RespondKeepingLockOnError(r, status) ==
    /\ req' = [req EXCEPT ![r] = Idle]
    /\ lastStatus' = status
    /\ listingLocks' = IF req[r].holds /\ status = 200
                       THEN releaseListingLock(listingLocks, req[r].id)
                       ELSE listingLocks

\* the request ends: the finally block releases the lock, the response is sent
Respond(r, status) ==
    /\ req' = [req EXCEPT ![r] = Idle]
    /\ lastStatus' = status
    /\ listingLocks' = IF req[r].holds THEN releaseListingLock(listingLocks, req[r].id)
                       ELSE listingLocks

\* a sweep that also reclaims a lock exactly as old as the threshold
StaleAtThreshold(timestamp) == now - timestamp >= STALE_LOCK_MS

\* now - timestamp > STALE_LOCK_MS
Stale(timestamp) == now - timestamp > STALE_LOCK_MS

\* the setInterval callback
Sweep ==
    /\ now - lastSweep >= SWEEP_INTERVAL_MS
    /\ lastSweep' = now
    /\ listingLocks' = [id \in {i \in DOMAIN listingLocks : ~Stale(listingLocks[i])} |->
                           listingLocks[id]]
    /\ UNCHANGED <<now, req, lastStatus>>

\* time passes
Tick(d) ==
    /\ d = POLL_MS => now % SWEEP_INTERVAL_MS < MaxFine * POLL_MS
    /\ now + d <= MaxIntervals * SWEEP_INTERVAL_MS + MaxFine * POLL_MS
    /\ now' = now + d
    /\ UNCHANGED <<listingLocks, lastSweep, req, lastStatus>>

\* setTimeout(resolve, 100) has fired: the loop of acquireListingLock goes on
PollLock(r) ==
    /\ req[r].pc = "sleeping"
    /\ now >= req[r].wakeAt
    /\ LoopHead(r, req[r])
    /\ UNCHANGED <<now, lastSweep>>

(***************************************************************************)
(* The listing store and findListingById.                                  *)
(***************************************************************************)
\* the folders whose metadata.json holds this id
FoldersOf(id) == {f \in DOMAIN disk : Has(disk[f], "id") /\ disk[f].id = id}

findListingById(id) ==
    IF FoldersOf(id) = {} THEN "none" ELSE CHOOSE f \in FoldersOf(id) : TRUE

\* fs.rm(folder, { recursive: true })
RemoveFolder(f) ==
    /\ disk' = Drop(disk, f)
    /\ backup' = Drop(backup, f)

(***************************************************************************)
(* DELETE /api/listings/:id                                                *)
(***************************************************************************)
DeleteRequest(r, id) ==
    /\ req[r].pc = "idle"
    /\ LoopHead(r, [Idle EXCEPT !.kind = "delete", !.id = id, !.startTime = now])
    /\ UNCHANGED <<now, lastSweep, storeVars>>

DeleteFind(r) ==
    /\ req[r].kind = "delete" /\ req[r].pc = "find"
    /\ LET f == findListingById(req[r].id)
       IN  IF f = "none"
           THEN Respond(r, 404)
           ELSE /\ req' = [req EXCEPT ![r].pc = "rm", ![r].folder = f]
                /\ UNCHANGED <<listingLocks, lastStatus>>
    /\ UNCHANGED <<now, lastSweep, storeVars>>

DeleteRm(r) ==
    /\ req[r].kind = "delete" /\ req[r].pc = "rm"
    /\ \/ /\ Has(disk, req[r].folder)
          /\ RemoveFolder(req[r].folder)
          /\ completed' = Drop(completed, req[r].id)
          /\ Respond(r, 200)
       \/ /\ UNCHANGED storeVars
          /\ Respond(r, 500)
    /\ UNCHANGED <<now, lastSweep>>

(***************************************************************************)
(* PATCH /api/listings/:id                                                 *)
(***************************************************************************)
\* req.body of an edit: the fields left out are undefined
EditBody == [title |-> "Beach House", description |-> "Sea view"]

Digits == {"0", "1", "2", "3", "4", "5", "6", "7", "8", "9"}

\* the end of the run of digits that starts at position i
RECURSIVE DigitsEnd(_, _)
DigitsEnd(str, i) ==
    IF i <= Len(str) /\ SubSeq(str, i, i) \in Digits THEN DigitsEnd(str, i + 1) ELSE i - 1

\* str.split(separator), the separator one character
RECURSIVE Split(_, _)
Split(str, separator) ==
    LET ats == {i \in 1..Len(str) : SubSeq(str, i, i) = separator}
    IN  IF ats = {} THEN <<str>>
        ELSE LET at == CHOOSE i \in ats : \A j \in ats : i <= j
             IN  <<SubSeq(str, 1, at - 1)>> \o Split(SubSeq(str, at + 1, Len(str)), separator)

\* str.trim(), for the blank as white space
RECURSIVE Trim(_)
Trim(str) ==
    IF Len(str) > 0 /\ SubSeq(str, 1, 1) = " " THEN Trim(SubSeq(str, 2, Len(str)))
    ELSE IF Len(str) > 0 /\ SubSeq(str, Len(str), Len(str)) = " "
    THEN Trim(SubSeq(str, 1, Len(str) - 1))
    ELSE str

\* the number a run of digits stands for
RECURSIVE NumberOf(_)
NumberOf(digits) ==
    IF digits = "" THEN 0
    ELSE NumberOf(SubSeq(digits, 1, Len(digits) - 1)) * 10
            + (CHOOSE n \in 0..9 : ToString(n) = SubSeq(digits, Len(digits), Len(digits)))

\* parseFloat(str) for strings without a fraction or an exponent: the number of
\* the longest prefix that is a sign and digits, NaN when there are no digits
parseFloat(str) ==
    LET signed == Len(str) > 0 /\ SubSeq(str, 1, 1) \in {"-", "+"}
        start  == IF signed THEN 2 ELSE 1
        end    == DigitsEnd(str, start)
    IN  IF end < start THEN [isNaN |-> TRUE, value |-> 0]
        ELSE [isNaN |-> FALSE,
              value |-> IF signed /\ SubSeq(str, 1, 1) = "-"
                        THEN 0 - NumberOf(SubSeq(str, start, end))
                        ELSE NumberOf(SubSeq(str, start, end))]

\* metadata.location, the empty object when the listing has none
LocationOf(metadata) == IF Has(metadata, "location") THEN metadata.location ELSE EmptyObject

\* if (location !== undefined): address, city, country from the parts
LocationEdited(location, text) ==
    LET parts == [k \in 1..Len(Split(text, ",")) |-> Trim(Split(text, ",")[k])]
        l1 == Put(location, "address", parts[1])
        l2 == IF Len(parts) >= 2 THEN Put(l1, "city", parts[2]) ELSE l1
    IN  IF Len(parts) >= 3 THEN Put(l2, "country", parts[3]) ELSE l2

\* lat >= -90 && lat <= 90 && lng >= -180 && lng <= 180
InBounds(lat, lng) == lat >= -90 /\ lat <= 90 /\ lng >= -180 /\ lng <= 180

\* if (gps !== undefined): lat and lng are set when both parse and are in bounds
GpsEdited(location, gps) ==
    LET coords == [k \in 1..Len(Split(gps, ",")) |-> parseFloat(Trim(Split(gps, ",")[k]))]
    IN  IF /\ Len(coords) >= 2
           /\ ~coords[1].isNaN /\ ~coords[2].isNaN
           /\ InBounds(coords[1].value, coords[2].value)
        THEN Put(Put(location, "lat", coords[1].value), "lng", coords[2].value)
        ELSE location

\* the listing after the handler has applied the fields of the request body
\* that are not undefined
Edited(metadata, body) ==
    LET direct == {"title", "sourceUrl", "description", "amenities", "images"}
                     \cap DOMAIN body
        m1 == [k \in DOMAIN metadata \cup direct |->
                  IF k \in direct THEN body[k] ELSE metadata[k]]
        m2 == IF Has(body, "location")
              THEN Put(m1, "location", LocationEdited(LocationOf(m1), body.location))
              ELSE m1
        m3 == IF Has(body, "gps")
              THEN Put(m2, "location", GpsEdited(LocationOf(m2), body.gps))
              ELSE m2
    IN  Put(m3, "editedAt", now)

PatchRequest(r, id, body) ==
    /\ req[r].pc = "idle"
    /\ LoopHead(r, [Idle EXCEPT !.kind = "patch", !.id = id, !.body = body,
                                   !.startTime = now])
    /\ UNCHANGED <<now, lastSweep, storeVars>>

PatchFind(r) ==
    /\ req[r].kind = "patch" /\ req[r].pc = "find"
    /\ LET f == findListingById(req[r].id)
       IN  IF f = "none"
           THEN Respond(r, 404)
           ELSE /\ req' = [req EXCEPT ![r].pc = "write", ![r].folder = f,
                                      ![r].metadata = Edited(disk[f], req[r].body)]
                /\ UNCHANGED <<listingLocks, lastStatus>>
    /\ UNCHANGED <<now, lastSweep, storeVars>>

\* await fsPromises.writeFile(metaPath, ...)
PatchWrite(r) ==
    /\ req[r].kind = "patch" /\ req[r].pc = "write"
    /\ \/ /\ Has(disk, req[r].folder)
          /\ disk' = Put(disk, req[r].folder, req[r].metadata)
          /\ UNCHANGED <<backup, completed>>
          /\ IF Has(req[r].body, "description")
             THEN /\ req' = [req EXCEPT ![r].pc = "writeDescription"]
                  /\ UNCHANGED <<listingLocks, lastStatus>>
             ELSE Respond(r, 200)
       \/ /\ UNCHANGED storeVars
          /\ Respond(r, 500)
    /\ UNCHANGED <<now, lastSweep>>

\* await fsPromises.writeFile(description.txt, description)
PatchWriteDescription(r) ==
    /\ req[r].kind = "patch" /\ req[r].pc = "writeDescription"
    /\ \/ Respond(r, 200)
       \/ Respond(r, 500)
    /\ UNCHANGED <<now, lastSweep, storeVars>>

(***************************************************************************)
(* The lock manager under DELETE and PATCH requests, with the clock.       *)
(***************************************************************************)
InitialListing(id) ==
    [id |-> id, platform |-> "airbnb", sourceUrl |-> "https://airbnb.com/rooms/1",
     scrapedAt |-> 0, title |-> "Ocean View Villa", amenities |-> <<"WiFi">>,
     images |-> <<[original |-> "https://img/1", local |-> <<id, "image_1.jpg">>]>>]

InitRequests ==
    /\ now = 0
    /\ listingLocks = EmptyObject
    /\ lastSweep = 0
    /\ req = [r \in Reqs |-> Idle]
    /\ lastStatus = 0

InitDisk ==
    /\ disk = [f \in {"L1"} |-> InitialListing(f)]
    /\ backup = EmptyObject
    /\ completed = [id \in {"L1"} |-> 0]

LockNext ==
    \/ \E d \in {POLL_MS, SWEEP_INTERVAL_MS} : Tick(d) /\ UNCHANGED <<storeVars, mergeVars, toolVars>>
    \/ Sweep /\ UNCHANGED <<storeVars, mergeVars, toolVars>>
    \/ \E r \in Reqs :
          \/ \E id \in ListingIds : DeleteRequest(r, id) /\ UNCHANGED <<mergeVars, toolVars>>
          \/ \E id \in ListingIds : PatchRequest(r, id, EditBody) /\ UNCHANGED <<mergeVars, toolVars>>
          \/ PollLock(r) /\ UNCHANGED <<storeVars, mergeVars, toolVars>>
          \/ DeleteFind(r) /\ UNCHANGED <<mergeVars, toolVars>>
          \/ DeleteRm(r) /\ UNCHANGED <<mergeVars, toolVars>>
          \/ PatchFind(r) /\ UNCHANGED <<mergeVars, toolVars>>
          \/ PatchWrite(r) /\ UNCHANGED <<mergeVars, toolVars>>
          \/ PatchWriteDescription(r) /\ UNCHANGED <<mergeVars, toolVars>>

ServerInit == InitRequests /\ InitDisk /\ InitMergeIdle /\ InitToolsIdle

LockSpec == ServerInit /\ [][LockNext]_vars

(***************************************************************************)
(* POST /api/listings/:id/update: re-scrape and additive merge.            *)
(***************************************************************************)
\* what a scraper writes to <folder>/metadata.json for the listing's URL
Scrapes(id) ==
    { [id |-> id, folder |-> id, platform |-> "airbnb",
       sourceUrl |-> "https://airbnb.com/rooms/1", scrapedAt |-> now,
       title |-> "Beach House", amenities |-> <<"WiFi", "Pool">>,
       images |-> <<[original |-> "https://img/1", local |-> <<id, "image_1.jpg">>],
                    [original |-> "https://img/2", local |-> <<id, "image_2.jpg">>]>>] }

CompletedOf(id) == IF Has(completed, id) THEN completed[id] ELSE 0

UpdateRequest(r, id) ==
    /\ req[r].pc = "idle"
    /\ req' = [req EXCEPT ![r] = [Idle EXCEPT !.kind = "update", !.id = id, !.pc = "find"]]
    /\ UNCHANGED <<now, listingLocks, lastSweep, lastStatus, storeVars>>

\* await findListingById(id)
UpdateFind(r) ==
    /\ req[r].kind = "update" /\ req[r].pc = "find"
    /\ LET f == findListingById(req[r].id)
       IN  IF f = "none" \/ ~Truthy(disk[f], "sourceUrl")
           THEN Respond(r, 404)
           ELSE /\ req' = [req EXCEPT ![r].pc = "backup", ![r].folder = f,
                                      ![r].metadata = disk[f]]
                /\ UNCHANGED <<listingLocks, lastStatus>>
    /\ UNCHANGED <<now, lastSweep, storeVars>>

\* await fsPromises.copyFile(metaPath, backupPath), a failure is only logged
UpdateBackup(r) ==
    /\ req[r].kind = "update" /\ req[r].pc = "backup"
    /\ IF Has(disk, req[r].folder)
       THEN /\ backup' = Put(backup, req[r].folder, disk[req[r].folder])
            /\ req' = [req EXCEPT ![r].pc = "scrape", ![r].backedUp = TRUE,
                                  ![r].before = disk[req[r].folder]]
       ELSE /\ UNCHANGED backup
            /\ req' = [req EXCEPT ![r].pc = "scrape"]
    /\ UNCHANGED <<now, listingLocks, lastSweep, lastStatus, disk, completed>>

\* the scraper wrote its metadata into its own folder and returned; the handler
\* read the metadata.json of the listing's folder back, merged it into the metadata
\* it had found and saved the result, removed the backup and answered
UpdateSave(r, scraped) ==
    /\ req[r].kind = "update" /\ req[r].pc = "scrape"
    /\ UpdateCountOf(req[r].metadata) < MaxUpdates
    /\ CompletedOf(req[r].id) < MaxUpdates
    /\ LET written == Put(disk, scraped.folder, scraped)
       IN  /\ Has(written, req[r].folder)
           /\ disk' = Put(written, req[r].folder,
                          mergeMetadataAdditive(req[r].metadata, written[req[r].folder]))
    /\ backup' = Drop(backup, req[r].folder)
    /\ completed' = Put(completed, req[r].id, CompletedOf(req[r].id) + 1)
    /\ Respond(r, 200)
    /\ UNCHANGED <<now, lastSweep>>

\* the scraper threw, or returned without success, before writing anything
UpdateScrapeFails(r) ==
    /\ req[r].kind = "update" /\ req[r].pc = "scrape"
    /\ req' = [req EXCEPT ![r].pc = "restore"]
    /\ UNCHANGED <<now, listingLocks, lastSweep, lastStatus, storeVars>>

\* the scraper wrote its metadata, then reading the listing's metadata.json or
\* writing the merged metadata threw
UpdateSaveFails(r, scraped) ==
    /\ req[r].kind = "update" /\ req[r].pc = "scrape"
    /\ disk' = Put(disk, scraped.folder, scraped)
    /\ req' = [req EXCEPT ![r].pc = "restore"]
    /\ UNCHANGED <<now, listingLocks, lastSweep, lastStatus, backup, completed>>

\* the catch block: await findListingById, copy the backup back if there is one,
\* answer 500
UpdateRestore(r) ==
    /\ req[r].kind = "update" /\ req[r].pc = "restore"
    /\ LET f == findListingById(req[r].id)
       IN  IF f # "none" /\ Has(backup, f)
           THEN disk' = Put(disk, f, backup[f])
           ELSE UNCHANGED disk
    /\ Respond(r, 500)
    /\ UNCHANGED <<now, lastSweep, backup, completed>>

(***************************************************************************)
(* POST /api/scrape with a listing URL, scraped through the Airbnb API     *)
(* scraper (the default), and mergeWithExistingListing.                    *)
(***************************************************************************)
\* the position at which sub first occurs in str from position i on, 0 if nowhere
RECURSIVE IndexOf(_, _, _)
IndexOf(str, sub, i) ==
    IF i + Len(sub) - 1 > Len(str) THEN 0
    ELSE IF SubSeq(str, i, i + Len(sub) - 1) = sub THEN i
    ELSE IndexOf(str, sub, i + 1)

\* roomUrl.match(/\/rooms\/(\d+)/): the room id, "" when there is no match
RoomId(roomUrl) ==
    LET at == IndexOf(roomUrl, "/rooms/", 1)
    IN  IF at = 0 THEN ""
        ELSE SubSeq(roomUrl, at + 7, DigitsEnd(roomUrl, at + 7))

\* data.roomId || `airbnb_${Date.now()}`; the model names the folder of room n "Ln"
FolderId(roomUrl) == IF RoomId(roomUrl) = "" THEN "airbnb_now" ELSE "L" \o RoomId(roomUrl)

\* the metadata.json the scraper writes for the URL
ScrapedMetadata(roomUrl) ==
    {[m EXCEPT !.sourceUrl = roomUrl] : m \in Scrapes(FolderId(roomUrl))}

\* what the scraper returns: { success: true, data }
ScrapeResult(metadata) == [success |-> TRUE, data |-> [title |-> metadata.title]]

\* obj.id, undefined when the object has no id
IdOf(obj) == IF Has(obj, "id") THEN obj.id ELSE Null

\* the folders the lookup loop of mergeWithExistingListing ends with
NewFolders(d, newResult) == {f \in DOMAIN d : IdOf(d[f]) = IdOf(newResult)}

ExistingFolders(d, scrapedUrl, newResult) ==
    {f \in DOMAIN d :
        /\ IdOf(d[f]) # IdOf(newResult)
        /\ normalizeUrl(IF Truthy(d[f], "sourceUrl") THEN d[f].sourceUrl ELSE "")
              = normalizeUrl(scrapedUrl)}

\* the downloads directory after mergeWithExistingListing
mergeWithExistingListing(d, scrapedUrl, newResult, srcMissing, failing) ==
    LET olds == ExistingFolders(d, scrapedUrl, newResult)
        news == NewFolders(d, newResult)
    IN  IF olds = {} \/ news = {} THEN d
        ELSE LET existingFolder == CHOOSE f \in olds : TRUE
                 newFolder == CHOOSE f \in news : TRUE
                 merged == mergeIntoExisting(d[existingFolder], existingFolder,
                                             d[newFolder], srcMissing, failing)
             IN  Drop(Put(d, existingFolder, merged), newFolder)

ScrapeUrls == {"https://airbnb.com/rooms/1/?check_in=2"}

ScrapeRequest(r, scrapedUrl) ==
    /\ req[r].pc = "idle"
    /\ req' = [req EXCEPT ![r] = [Idle EXCEPT !.kind = "scrape", !.pc = "scraping",
                                             !.body = [url |-> scrapedUrl]]]
    /\ UNCHANGED <<now, listingLocks, lastSweep, lastStatus, storeVars>>

\* the scraper wrote its metadata.json and returned; the handler called
\* mergeWithExistingListing and answered
ScrapeDone(r, metadata) ==
    /\ req[r].kind = "scrape" /\ req[r].pc = "scraping"
    /\ LET written == Put(disk, metadata.folder, metadata)
       IN  disk' = mergeWithExistingListing(written, req[r].body.url,
                                            ScrapeResult(metadata), {}, {})
    /\ Respond(r, 200)
    /\ UNCHANGED <<now, lastSweep, backup, completed>>

\* the scraper threw (500) or reported bot protection (403) before writing
ScrapeFails(r, status) ==
    /\ req[r].kind = "scrape" /\ req[r].pc = "scraping"
    /\ Respond(r, status)
    /\ UNCHANGED <<now, lastSweep, storeVars>>

(***************************************************************************)
(* POST /api/listings/merge: unification of two stored listings.  A        *)
(* listing that was not found is the empty object.                         *)
(***************************************************************************)
Found(listing) == listing # EmptyObject

PlatformOf(listing) == IF Has(listing, "platform") THEN listing.platform ELSE Null

IsUnified(listing) == PlatformOf(listing) = "unified"

getListingPlatforms(listing) ==
    IF ~Found(listing) THEN <<>>
    ELSE IF IsUnified(listing)
         THEN (IF Has(listing, "platforms") THEN listing.platforms ELSE <<"airbnb", "booking">>)
         ELSE <<PlatformOf(listing)>>

\* { ...a, ...b }: the properties of b win
Spread(a, b) == [k \in DOMAIN a \cup DOMAIN b |-> IF Has(b, k) THEN b[k] ELSE a[k]]

\* the images of the request body, copied into the folder of the unified listing;
\* missing are the local paths whose file exists in neither place looked at
RECURSIVE CopyMergedImages(_, _, _)
CopyMergedImages(imagesToCopy, mergedFolder, missing) ==
    IF imagesToCopy = <<>> THEN <<>>
    ELSE LET img == Head(imagesToCopy)
             rest == CopyMergedImages(Tail(imagesToCopy), mergedFolder, missing)
         IN  IF ~Has(img, "local") THEN rest
             ELSE IF img.local \in missing THEN <<img>> \o rest
             ELSE <<CopiedEntry(mergedFolder, img)>> \o rest

SourceEntry(listing) ==
    [id |-> IdOf(listing),
     url |-> IF Has(listing, "sourceUrl") THEN listing.sourceUrl ELSE Null,
     title |-> IF Has(listing, "title") THEN listing.title ELSE Null]

\* the sources object
MergedSources(leftListing, rightListing) ==
    LET existingSources == IF Has(leftListing, "sources") THEN leftListing.sources
                           ELSE EmptyObject
        withLeft == IF Found(leftListing) /\ ~IsUnified(leftListing)
                    THEN Put(existingSources, PlatformOf(leftListing), SourceEntry(leftListing))
                    ELSE existingSources
    IN  IF Found(rightListing) /\ ~IsUnified(rightListing)
        THEN Put(withLeft, PlatformOf(rightListing), SourceEntry(rightListing))
        ELSE IF Found(rightListing) /\ Has(rightListing, "sources")
        THEN Spread(withLeft, rightListing.sources)
        ELSE withLeft

\* what one listing spreads into the pricing map
PricingFrom(listing) ==
    IF ~Has(listing, "pricing") THEN EmptyObject
    ELSE IF IsUnified(listing) THEN listing.pricing
    ELSE Put(EmptyObject, PlatformOf(listing), listing.pricing)

\* the pricing object: four spreads, the left listing's first
MergedPricing(leftListing, rightListing) ==
    Spread(PricingFrom(leftListing), PricingFrom(rightListing))

FirstTruthy(objs, f, default) ==
    IF \E i \in 1..Len(objs) : Truthy(objs[i], f)
    THEN objs[CHOOSE i \in 1..Len(objs) :
                 Truthy(objs[i], f) /\ \A j \in 1..(i - 1) : ~Truthy(objs[j], f)][f]
    ELSE default

\* location and host are opaque values; this is the empty object {}
EmptyDetails == "{}"

\* a unification that, when it updates a unified listing, names the first of
\* its platforms
MergedPlatformFirstSource(leftListing) ==
    IF IsUnified(leftListing) THEN Head(getListingPlatforms(leftListing)) ELSE "unified"

\* platform: 'unified'
MergedPlatform(leftListing) == "unified"

\* the mergedMetadata object, as JSON.stringify writes it
mergedMetadata(leftListing, rightListing, merged, mergedId, mergedFolder, missing) ==
    LET isUpdatingExisting == IsUnified(leftListing)
        base ==
          [id |-> mergedId,
           platform |-> MergedPlatform(leftListing),
           platforms |-> ArrayFromSet(getListingPlatforms(leftListing)
                                         \o getListingPlatforms(rightListing)),
           title |-> IF Truthy(merged, "title") THEN merged.title ELSE "Merged Listing",
           description |-> IF Truthy(merged, "description") THEN merged.description ELSE "",
           amenities |-> ArrayOf(merged, "amenities"),
           images |-> CopyMergedImages(ArrayOf(merged, "images"), mergedFolder, missing),
           sources |-> MergedSources(leftListing, rightListing),
           location |-> FirstTruthy(<<merged, leftListing, rightListing>>, "location",
                                    EmptyDetails),
           host |-> FirstTruthy(<<leftListing, rightListing>>, "host", EmptyDetails),
           pricing |-> MergedPricing(leftListing, rightListing),
           sourceUrl |-> FirstTruthy(<<leftListing, rightListing>>, "sourceUrl", ""),
           folder |-> mergedFolder,
           scrapedAt |-> IF isUpdatingExisting
                         THEN (IF Has(leftListing, "scrapedAt")
                               THEN leftListing.scrapedAt ELSE now)
                         ELSE now,
           mergedAt |-> now]
    IN  IF isUpdatingExisting THEN Put(base, "updatedAt", now) ELSE base

(***************************************************************************)
(* The unification of two listings read from the downloads directory.      *)
(***************************************************************************)
PriceA == [perNight |-> 100]
PriceB == [perNight |-> 120]

SingleListings ==
    { [id |-> "L1", folder |-> "L1", platform |-> "airbnb", title |-> "Ocean View Villa",
       sourceUrl |-> "https://airbnb.com/rooms/1", scrapedAt |-> 0],
      [id |-> "L1", folder |-> "L1", platform |-> "airbnb", title |-> "Ocean View Villa",
       sourceUrl |-> "https://airbnb.com/rooms/1", scrapedAt |-> 0, pricing |-> PriceA],
      [id |-> "L2", folder |-> "L2", platform |-> "airbnb", title |-> "Beach House",
       sourceUrl |-> "https://airbnb.com/rooms/2", scrapedAt |-> 0, pricing |-> PriceB],
      [id |-> "B1", folder |-> "booking_1", platform |-> "booking", title |-> "Beach House",
       sourceUrl |-> "http://booking.com/hotel/1", scrapedAt |-> 0, pricing |-> PriceB] }

UnifyBodies ==
    { EmptyObject,
      [title |-> "Villa", amenities |-> <<"WiFi">>],
      [title |-> "Villa",
       images |-> <<[original |-> "https://img/1", local |-> <<"L1", "image_1.jpg">>],
                    [original |-> "https://img/2"],
                    [original |-> "https://img/3", local |-> <<"booking_1", "image_2.jpg">>],
                    [original |-> "https://img/4", local |-> <<"booking_1", "image_1.jpg">>]>>] }

\* unified listings: those a first unification of two single listings writes
UnifiedListings ==
    { mergedMetadata(l, r, EmptyObject, "unified-0", "unified_0", {}) :
         l \in SingleListings, r \in SingleListings }

InitUnify ==
    /\ leftStored \in SingleListings \cup UnifiedListings
    /\ rightStored \in SingleListings \cup UnifiedListings \cup {EmptyObject}
    /\ mergedBody \in UnifyBodies
    /\ unified = EmptyObject
    /\ unifyStatus = 0
    /\ copyThrew = FALSE
    /\ unifiedFiles = EmptyObject

\* the copy loop throws: it comes to an image whose file exists and is not yet
\* in the images directory (dest), and copyFileSync fails for it
RECURSIVE CopyThrows(_, _, _, _)
CopyThrows(imagesToCopy, dest, missing, failing) ==
    IF imagesToCopy = <<>> THEN FALSE
    ELSE LET img == Head(imagesToCopy)
         IN  IF ~Has(img, "local") \/ img.local \in missing
             THEN CopyThrows(Tail(imagesToCopy), dest, missing, failing)
             ELSE IF img.local[2] \in dest
             THEN CopyThrows(Tail(imagesToCopy), dest, missing, failing)
             ELSE IF img.local \in failing THEN TRUE
             ELSE CopyThrows(Tail(imagesToCopy), dest \cup {img.local[2]}, missing, failing)

\* the images directory after the copy loop, which ends where a copy throws:
\* a file is copied only if (!fs.existsSync(destPath))
RECURSIVE CopyFiles(_, _, _, _)
CopyFiles(imagesToCopy, files, missing, failing) ==
    IF imagesToCopy = <<>> THEN files
    ELSE LET img == Head(imagesToCopy)
         IN  IF ~Has(img, "local") \/ img.local \in missing
             THEN CopyFiles(Tail(imagesToCopy), files, missing, failing)
             ELSE IF Has(files, img.local[2])
             THEN CopyFiles(Tail(imagesToCopy), files, missing, failing)
             ELSE IF img.local \in failing THEN files
             ELSE CopyFiles(Tail(imagesToCopy), Put(files, img.local[2], img.local),
                            missing, failing)

\* the handler from the listings it found to its response: the catch block
\* answers 500 when a copy threw, and nothing has been written then
UnifyFound(leftListing, rightListing, failing) ==
    LET isUpdatingExisting == IsUnified(leftListing)
        mergedId == IF isUpdatingExisting THEN leftListing.id ELSE "unified-1"
        mergedFolder == IF isUpdatingExisting THEN leftListing.folder ELSE "unified_1"
        files == IF isUpdatingExisting THEN unifiedFiles ELSE EmptyObject
    IN  /\ unifiedFiles' = CopyFiles(ArrayOf(mergedBody, "images"), files, {}, failing)
        /\ IF CopyThrows(ArrayOf(mergedBody, "images"), DOMAIN files, {}, failing)
           THEN /\ unifyStatus' = 500
                /\ copyThrew' = TRUE
                /\ UNCHANGED <<leftStored, rightStored, unified>>
           ELSE /\ unifyStatus' = 200
                /\ copyThrew' = FALSE
                /\ leftStored' = leftListing
                /\ rightStored' = rightListing
                /\ unified' = mergedMetadata(leftListing, rightListing, mergedBody,
                                             mergedId, mergedFolder, {})

\* POST /api/listings/merge; leftStored and rightStored are the listings of the
\* last unification that was written
Unify ==
    /\ unified = EmptyObject
    /\ \E failing \in AtMostOne(LocalPaths(ArrayOf(mergedBody, "images"))) :
          UnifyFound(leftStored, rightStored, failing)
    /\ UNCHANGED mergedBody

\* POST /api/listings/merge again, its leftId the id of the unified listing
\* written last
UnifyAgain ==
    /\ unified # EmptyObject
    /\ \E right \in SingleListings \cup UnifiedListings,
          failing \in AtMostOne(LocalPaths(ArrayOf(mergedBody, "images"))) :
          UnifyFound(unified, right, failing)
    /\ UNCHANGED mergedBody

UnifyNext ==
    \/ Unify
         /\ UNCHANGED <<lockVars, storeVars, mergeVars, urlVars, dedupVars, clipVars, pathVars, rescrapeVars>>
    \/ UnifyAgain
         /\ UNCHANGED <<lockVars, storeVars, mergeVars, urlVars, dedupVars, clipVars, pathVars, rescrapeVars>>

UnifyInit ==
    /\ InitLock /\ InitStore /\ InitMergeIdle
    /\ InitUrlIdle /\ InitUnify /\ InitDedupIdle /\ InitClipIdle /\ InitPathIdle /\ InitRescrapeIdle

UnifySpec == UnifyInit /\ [][UnifyNext]_vars

(***************************************************************************)
(* The catalogue: scrapes, edits, updates and unifications on one          *)
(* downloads directory.                                                    *)
(***************************************************************************)
MaxUnified == 1

\* { ...metadata, folder } of the listing with this id, the empty object if none
LookupById(d, id) ==
    IF \E f \in DOMAIN d : IdOf(d[f]) = id
    THEN LET f == CHOOSE g \in DOMAIN d : IdOf(d[g]) = id IN Put(d[f], "folder", f)
    ELSE EmptyObject

UnifiedFolders(d) == {f \in DOMAIN d : IsUnified(d[f])}

\* the whole handler is synchronous: lookup, folder, images, metadata, write
UnifyListings(leftId, rightId, merged) ==
    /\ LET leftListing == LookupById(disk, leftId)
           rightListing == LookupById(disk, rightId)
           stamp == ToString(Cardinality(UnifiedFolders(disk)) + 1)
       IN  IF IsUnified(leftListing)
           THEN disk' = Put(disk, leftListing.folder,
                            mergedMetadata(leftListing, rightListing, merged,
                                           leftListing.id, leftListing.folder, {}))
           ELSE /\ Cardinality(UnifiedFolders(disk)) < MaxUnified
                /\ disk' = Put(disk, "unified_" \o stamp,
                               mergedMetadata(leftListing, rightListing, merged,
                                              "unified-" \o stamp, "unified_" \o stamp, {}))
    /\ lastStatus' = 200
    /\ UNCHANGED <<now, listingLocks, lastSweep, req, backup, completed>>

\* what the scraper writes for the URL of the listing a request updates
UpdateScrapes(r) ==
    IF Has(req[r].metadata, "sourceUrl") THEN ScrapedMetadata(req[r].metadata.sourceUrl)
    ELSE {}

\* what the scraper writes for the URL a request asks to scrape
RequestScrapes(r) ==
    IF Has(req[r].body, "url") THEN ScrapedMetadata(req[r].body.url) ELSE {}

\* the catalogue serves one request at a time
CatalogReqs == {"r1"}

\* the merged object the unifications of the catalogue send
CatalogBodies == {body \in UnifyBodies : Has(body, "images")}

\* the ids the edits and updates name; the unifications name these and B1
CatalogIds == {"unified-1"}

BookingListing ==
    [id |-> "B1", platform |-> "booking", sourceUrl |-> "http://booking.com/hotel/1",
     scrapedAt |-> 0, title |-> "Beach House", amenities |-> <<"Pool">>,
     images |-> <<[original |-> "https://img/9", local |-> <<"booking_1", "image_1.jpg">>]>>]

InitCatalogDisk ==
    /\ disk = [f \in {"L1", "booking_1"} |->
                  IF f = "L1" THEN InitialListing(f) ELSE BookingListing]
    /\ backup = EmptyObject
    /\ completed = [id \in {"L1"} |-> 0]

CatalogNext ==
    \/ \E leftId \in CatalogIds \cup {"L1"}, rightId \in {"B1", "none"}, merged \in CatalogBodies :
          UnifyListings(leftId, rightId, merged) /\ UNCHANGED <<mergeVars, toolVars>>
    \/ \E r \in CatalogReqs :
          \/ \E id \in CatalogIds : PatchRequest(r, id, EditBody) /\ UNCHANGED <<mergeVars, toolVars>>
          \/ \E id \in CatalogIds : UpdateRequest(r, id) /\ UNCHANGED <<mergeVars, toolVars>>
          \/ \E scrapedUrl \in ScrapeUrls : ScrapeRequest(r, scrapedUrl) /\ UNCHANGED <<mergeVars, toolVars>>
          \/ PatchFind(r) /\ UNCHANGED <<mergeVars, toolVars>>
          \/ PatchWrite(r) /\ UNCHANGED <<mergeVars, toolVars>>
          \/ PatchWriteDescription(r) /\ UNCHANGED <<mergeVars, toolVars>>
          \/ UpdateFind(r) /\ UNCHANGED <<mergeVars, toolVars>>
          \/ UpdateBackup(r) /\ UNCHANGED <<mergeVars, toolVars>>
          \/ \E scraped \in UpdateScrapes(r) :
                UpdateSave(r, scraped) /\ UNCHANGED <<mergeVars, toolVars>>
          \/ UpdateScrapeFails(r) /\ UNCHANGED <<mergeVars, toolVars>>
          \/ \E scraped \in UpdateScrapes(r) :
                UpdateSaveFails(r, scraped) /\ UNCHANGED <<mergeVars, toolVars>>
          \/ UpdateRestore(r) /\ UNCHANGED <<mergeVars, toolVars>>
          \/ \E metadata \in RequestScrapes(r) :
                ScrapeDone(r, metadata) /\ UNCHANGED <<mergeVars, toolVars>>
          \/ \E status \in {403, 500} : ScrapeFails(r, status) /\ UNCHANGED <<mergeVars, toolVars>>

CatalogInit == InitRequests /\ InitCatalogDisk /\ InitMergeIdle /\ InitToolsIdle

CatalogSpec == CatalogInit /\ [][CatalogNext]_vars

(***************************************************************************)
(* Image similarity: perceptual hashes (hammingDistance, deduplicateImages, *)
(* analyzeImageSimilarity).  An image is { local: path }; the files and    *)
(* their hashes are fixed.                                                 *)
(***************************************************************************)
MaxImages == 4
MaxThreshold == 3

\* what hammingDistance returns for hashes of different lengths
Infinity == 1000000

\* a distance over the characters both hashes have, whatever their lengths
hammingDistanceOfPrefix(hash1, hash2) ==
    LET shorter == IF Len(hash1) < Len(hash2) THEN Len(hash1) ELSE Len(hash2)
    IN  Cardinality({i \in 1..shorter : SubSeq(hash1, i, i) # SubSeq(hash2, i, i)})

hammingDistance(hash1, hash2) ==
    IF Len(hash1) # Len(hash2) THEN Infinity
    ELSE Cardinality({i \in 1..Len(hash1) : SubSeq(hash1, i, i) # SubSeq(hash2, i, i)})

\* the image files there are; every other path has no file
ImageFiles == {"a.jpg", "b.jpg", "c.jpg", "d.jpg"}

ImagePaths == ImageFiles \cup {"gone.jpg"}

\* the hash imghash computes for the file, null when the file does not exist
getImageHash(imagePath) ==
    CASE imagePath = "a.jpg" -> "20202"
      [] imagePath = "b.jpg" -> "00000"
      [] imagePath = "c.jpg" -> "11000"
      [] imagePath = "d.jpg" -> "00110"
      [] imagePath = "e.jpg" -> "00000000"
      [] imagePath = "f.jpg" -> "11100000"
      [] imagePath = "g.jpg" -> "11111100"
      [] imagePath = "h.jpg" -> "000"
      [] OTHER -> Null

\* a dedupe that calls two hashes similar only below the threshold
SimilarHashBelow(hash, existingHash, threshold) ==
    hammingDistance(hash, existingHash) < threshold

\* distance <= threshold
SimilarHash(hash, existingHash, threshold) ==
    hammingDistance(hash, existingHash) <= threshold

\* a dedupe that leaves out the images it cannot hash
RECURSIVE DedupeFromDroppingUnhashed(_, _, _, _, _)
DedupeFromDroppingUnhashed(imgs, threshold, i, uniqueImages, hashes) ==
    IF i > Len(imgs) THEN uniqueImages
    ELSE LET img == imgs[i]
             hash == getImageHash(img.local)
         IN  IF hash = Null
             THEN DedupeFromDroppingUnhashed(imgs, threshold, i + 1, uniqueImages, hashes)
             ELSE IF \E k \in 1..Len(hashes) : SimilarHash(hash, hashes[k], threshold)
             THEN DedupeFromDroppingUnhashed(imgs, threshold, i + 1, uniqueImages, hashes)
             ELSE DedupeFromDroppingUnhashed(imgs, threshold, i + 1,
                                             Append(uniqueImages, img), Append(hashes, hash))

\* the loop of deduplicateImages from image i on
RECURSIVE DedupeFrom(_, _, _, _, _)
DedupeFrom(imgs, threshold, i, uniqueImages, hashes) ==
    IF i > Len(imgs) THEN uniqueImages
    ELSE LET img == imgs[i]
             hash == getImageHash(img.local)
         IN  IF hash = Null
             THEN DedupeFrom(imgs, threshold, i + 1, Append(uniqueImages, img), hashes)
             ELSE IF \E k \in 1..Len(hashes) : SimilarHash(hash, hashes[k], threshold)
             THEN DedupeFrom(imgs, threshold, i + 1, uniqueImages, hashes)
             ELSE DedupeFrom(imgs, threshold, i + 1, Append(uniqueImages, img),
                             Append(hashes, hash))

deduplicateImages(imgs, threshold) == DedupeFrom(imgs, threshold, 1, <<>>, <<>>)

\* the positions j = i + 1 .. images.length - 1 of the inner loop, in its order
Later(imgs, i) == [k \in 1..(Len(imgs) - i) |-> i + k]

\* { ...img, originalIndex, isDuplicate }; JavaScript counts the images from 0
Original(imgs, i) ==
    [local |-> imgs[i].local, originalIndex |-> i - 1, isDuplicate |-> FALSE]

Duplicate(imgs, j, similarity) ==
    [local |-> imgs[j].local, originalIndex |-> j - 1, isDuplicate |-> TRUE,
     similarity |-> similarity]

\* one turn of the outer loop of the second pass of analyzeImageSimilarity, for
\* image i; loop holds processed and groups
HashGroupStep(imgs, threshold, i, loop) ==
    IF i \in loop.processed THEN loop
    ELSE LET hash == getImageHash(imgs[i].local)
             js == IF hash = Null THEN <<>>
                   ELSE SelectSeq(Later(imgs, i),
                                  LAMBDA j :
                                     /\ j \notin loop.processed
                                     /\ getImageHash(imgs[j].local) # Null
                                     /\ hammingDistance(hash, getImageHash(imgs[j].local))
                                           <= threshold)
             similar == {js[k] : k \in 1..Len(js)}
             group == <<Original(imgs, i)>> \o
                      [k \in 1..Len(js) |->
                          Duplicate(imgs, js[k],
                                    hammingDistance(hash, getImageHash(imgs[js[k]].local)))]
         IN  [processed |-> loop.processed \cup {i} \cup similar,
              groups |-> Append(loop.groups, group)]

\* the turns of the outer loop for the images from..upto, one after the other:
\* those up to the middle are evaluated first, then the others go on from what
\* these left (or from loop, when they left it as it was)
RECURSIVE HashGroupsOver(_, _, _, _, _)
HashGroupsOver(imgs, threshold, from, upto, loop) ==
    IF from > upto THEN loop
    ELSE IF from = upto THEN HashGroupStep(imgs, threshold, from, loop)
    ELSE LET middle == (from + upto) \div 2
             sofar == HashGroupsOver(imgs, threshold, from, middle, loop)
         IN  IF sofar = loop
             THEN HashGroupsOver(imgs, threshold, middle + 1, upto, loop)
             ELSE HashGroupsOver(imgs, threshold, middle + 1, upto, sofar)

\* the second pass of analyzeImageSimilarity from image i on
HashGroupsFrom(imgs, threshold, i, processed, groups) ==
    HashGroupsOver(imgs, threshold, i, Len(imgs),
                   [processed |-> processed, groups |-> groups]).groups

\* the groups, one after the other
RECURSIVE Flatten(_)
Flatten(groups) ==
    IF groups = <<>> THEN <<>>
    ELSE IF Len(groups) = 1 THEN groups[1]
    ELSE LET middle == Len(groups) \div 2
         IN  Flatten(SubSeq(groups, 1, middle))
                \o Flatten(SubSeq(groups, middle + 1, Len(groups)))

\* what an analysis returns for its groups; the groups themselves are kept to
\* state what they hold
Analysis(groups, analyzed) ==
    [images |-> analyzed,
     groups |-> Len(groups),
     duplicates |-> Cardinality({k \in 1..Len(analyzed) : analyzed[k].isDuplicate}),
     grouping |-> groups]

analyzeImageSimilarity(imgs, threshold) ==
    LET groups == HashGroupsFrom(imgs, threshold, 1, {}, <<>>)
    IN  Analysis(groups, Flatten(groups))

(***************************************************************************)
(* Image similarity: CLIP embeddings (cosineSimilarity,                    *)
(* analyzeImageSimilarityCLIP).  Embeddings are short vectors of natural   *)
(* numbers; a threshold is given in hundredths, a similarity is reported   *)
(* in thousandths, as toFixed(3) prints it.                                *)
(***************************************************************************)
MAX_IMAGES_FOR_CLIP == 100

\* what the loaded pipeline is
Extractor == "extractor"

\* Array.from(result.data) of the extractor for the file, null when the path is
\* rejected, the file does not exist or the extractor throws
Extracted(imagePath) ==
    CASE imagePath = "a.jpg" -> <<1, 0>>
      [] imagePath = "b.jpg" -> <<3, 1>>
      [] imagePath = "c.jpg" -> <<1, 1>>
      [] OTHER -> Null

\* getClipPipeline returns at once when the model is loaded or its load failed
getImageEmbedding(imagePath) ==
    IF clipPipeline = Null THEN Null ELSE Extracted(imagePath)

RECURSIVE DotProduct(_, _, _)
DotProduct(vecA, vecB, i) ==
    IF i > Len(vecA) THEN 0 ELSE vecA[i] * vecB[i] + DotProduct(vecA, vecB, i + 1)

\* cosineSimilarity(vecA, vecB) >= threshold, the threshold in hundredths;
\* the quotient is NaN, and the comparison false, when a norm is 0
SimilarEmbedding(vecA, vecB, threshold) ==
    LET dotProduct == DotProduct(vecA, vecB, 1)
        norms == DotProduct(vecA, vecA, 1) * DotProduct(vecB, vecB, 1)
    IN  /\ norms > 0
        /\ dotProduct * dotProduct * 10000 >= threshold * threshold * norms

\* similarity.toFixed(3), in thousandths
SimilarityFixed(vecA, vecB) ==
    LET dotProduct == DotProduct(vecA, vecB, 1)
        norms == DotProduct(vecA, vecA, 1) * DotProduct(vecB, vecB, 1)
    IN  CHOOSE k \in 0..1000 :
           /\ k = 0 \/ (2 * k - 1) * (2 * k - 1) * norms <= 4000000 * dotProduct * dotProduct
           /\ k = 1000 \/ 4000000 * dotProduct * dotProduct < (2 * k + 1) * (2 * k + 1) * norms

\* group.slice(1).sort(...): by similarity, highest first, equal ones in order
RECURSIVE SortBySimilarity(_)
SortBySimilarity(duplicates) ==
    IF duplicates = <<>> THEN <<>>
    ELSE LET best == CHOOSE k \in 1..Len(duplicates) :
                        /\ \A m \in 1..Len(duplicates) :
                              duplicates[m].similarity <= duplicates[k].similarity
                        /\ \A m \in 1..(k - 1) :
                              duplicates[m].similarity < duplicates[k].similarity
         IN  <<duplicates[best]>> \o
             SortBySimilarity(SubSeq(duplicates, 1, best - 1) \o
                              SubSeq(duplicates, best + 1, Len(duplicates)))

\* one turn of the outer grouping loop of analyzeImageSimilarityCLIP, for image
\* i; loop holds processed and groups
ClipGroupStep(imgs, threshold, i, loop) ==
    IF i \in loop.processed THEN loop
    ELSE LET embedding == getImageEmbedding(imgs[i].local)
             js == IF embedding = Null THEN <<>>
                   ELSE SelectSeq(Later(imgs, i),
                                  LAMBDA j :
                                     /\ j \notin loop.processed
                                     /\ getImageEmbedding(imgs[j].local) # Null
                                     /\ SimilarEmbedding(embedding,
                                                         getImageEmbedding(imgs[j].local),
                                                         threshold))
             similar == {js[k] : k \in 1..Len(js)}
             group == <<Original(imgs, i)>> \o
                      [k \in 1..Len(js) |->
                          Duplicate(imgs, js[k],
                                    SimilarityFixed(embedding,
                                                    getImageEmbedding(imgs[js[k]].local)))]
         IN  [processed |-> loop.processed \cup {i} \cup similar,
              groups |-> Append(loop.groups, group)]

\* the turns of the outer loop for the images from..upto, one after the other:
\* those up to the middle are evaluated first, then the others go on from what
\* these left (or from loop, when they left it as it was)
RECURSIVE ClipGroupsOver(_, _, _, _, _)
ClipGroupsOver(imgs, threshold, from, upto, loop) ==
    IF from > upto THEN loop
    ELSE IF from = upto THEN ClipGroupStep(imgs, threshold, from, loop)
    ELSE LET middle == (from + upto) \div 2
             sofar == ClipGroupsOver(imgs, threshold, from, middle, loop)
         IN  IF sofar = loop
             THEN ClipGroupsOver(imgs, threshold, middle + 1, upto, loop)
             ELSE ClipGroupsOver(imgs, threshold, middle + 1, upto, sofar)

\* the grouping loop of analyzeImageSimilarityCLIP from image i on
ClipGroupsFrom(imgs, threshold, i, processed, groups) ==
    ClipGroupsOver(imgs, threshold, i, Len(imgs),
                   [processed |-> processed, groups |-> groups]).groups

\* every group with its duplicates sorted
SortedGroups(groups) ==
    [g \in 1..Len(groups) |-> <<Head(groups[g])>> \o SortBySimilarity(Tail(groups[g]))]

analyzeImageSimilarityCLIP(imgs, threshold) ==
    LET limited == IF Len(imgs) > MAX_IMAGES_FOR_CLIP
                   THEN SubSeq(imgs, 1, MAX_IMAGES_FOR_CLIP) ELSE imgs
        groups == ClipGroupsFrom(limited, threshold, 1, {}, <<>>)
    IN  Analysis(groups, Flatten(SortedGroups(groups)))

(***************************************************************************)
(* The two strategies on one images array, at rising thresholds.           *)
(***************************************************************************)
\* the thresholds of the embedding analyses, in hundredths: a loose one and the
\* default
ClipThresholds == <<70, 92>>

RECURSIVE ImageLists(_)
ImageLists(n) ==
    IF n = 0 THEN {<<>>}
    ELSE LET shorter == ImageLists(n - 1)
         IN  shorter \cup {Append(l, [local |-> path]) : l \in shorter, path \in ImagePaths}

InitDedup ==
    /\ requestImages \in ImageLists(MaxImages)
    /\ analyses = EmptyObject
    /\ dedupes = EmptyObject
    /\ clipAnalyses = EmptyObject

Count(results) == Cardinality(DOMAIN results)

\* POST /api/images/analyze of the hash strategy, at the next threshold
AnalyzeHashes ==
    /\ clipAnalyses = EmptyObject
    /\ Count(analyses) <= MaxThreshold
    /\ analyses' = Put(analyses, Count(analyses),
                       analyzeImageSimilarity(requestImages, Count(analyses)))
    /\ UNCHANGED <<requestImages, dedupes, clipAnalyses>>

\* POST /api/images/dedupe, at the next threshold analysed
DedupeHashes ==
    /\ Count(dedupes) < Count(analyses)
    /\ dedupes' = Put(dedupes, Count(dedupes),
                      deduplicateImages(requestImages, Count(dedupes)))
    /\ UNCHANGED <<requestImages, analyses, clipAnalyses>>

\* POST /api/images/analyze of the embedding strategy, the model loaded
AnalyzeEmbeddings ==
    /\ analyses = EmptyObject \/ Count(dedupes) > MaxThreshold
    /\ Count(clipAnalyses) < Len(ClipThresholds)
    /\ LET threshold == ClipThresholds[Count(clipAnalyses) + 1]
       IN  clipAnalyses' = Put(clipAnalyses, threshold,
                               analyzeImageSimilarityCLIP(requestImages, threshold))
    /\ UNCHANGED <<requestImages, analyses, dedupes>>

DedupNext ==
    \/ AnalyzeHashes
          /\ UNCHANGED <<lockVars, storeVars, mergeVars, urlVars, unifyVars, clipVars, pathVars, rescrapeVars>>
    \/ DedupeHashes
          /\ UNCHANGED <<lockVars, storeVars, mergeVars, urlVars, unifyVars, clipVars, pathVars, rescrapeVars>>
    \/ AnalyzeEmbeddings
          /\ UNCHANGED <<lockVars, storeVars, mergeVars, urlVars, unifyVars, clipVars, pathVars, rescrapeVars>>

\* the model has been loaded
InitClipLoaded ==
    /\ clipPipeline = Extractor
    /\ clipModelLoading = FALSE
    /\ clipModelFailed = FALSE
    /\ loadsStarted = 1
    /\ callers = [c \in ClipCallers |->
                     IF c = "preload" THEN [NotCalling EXCEPT !.pc = "returned",
                                                               !.value = Extractor]
                     ELSE NotCalling]

DedupInit ==
    /\ InitLock /\ InitStore /\ InitMergeIdle
    /\ InitUrlIdle /\ InitUnifyIdle /\ InitDedup /\ InitClipLoaded /\ InitPathIdle /\ InitRescrapeIdle

DedupSpec == DedupInit /\ [][DedupNext]_vars

(***************************************************************************)
(* The hash analysis on hashes 3 and 6 apart and on hashes of different    *)
(* lengths, at the thresholds around the default.                          *)
(***************************************************************************)
\* const { images, threshold = 5 } = req.body
DEFAULT_HASH_THRESHOLD == 5

GroupThresholds == {3, DEFAULT_HASH_THRESHOLD, 6}

GroupPaths == {"e.jpg", "f.jpg", "g.jpg", "h.jpg"}

RECURSIVE GroupLists(_)
GroupLists(n) ==
    IF n = 0 THEN {<<>>}
    ELSE LET shorter == GroupLists(n - 1)
         IN  shorter \cup {Append(l, [local |-> path]) : l \in shorter, path \in GroupPaths}

InitGroup ==
    /\ requestImages \in GroupLists(MaxImages)
    /\ analyses = EmptyObject
    /\ dedupes = EmptyObject
    /\ clipAnalyses = EmptyObject

\* POST /api/images/analyze of the hash strategy, at a threshold of the body
AnalyzeGroups ==
    /\ \E threshold \in GroupThresholds \ DOMAIN analyses :
          analyses' = Put(analyses, threshold,
                          analyzeImageSimilarity(requestImages, threshold))
    /\ UNCHANGED <<requestImages, dedupes, clipAnalyses>>

GroupNext ==
    AnalyzeGroups
       /\ UNCHANGED <<lockVars, storeVars, mergeVars, urlVars, unifyVars, clipVars, pathVars, rescrapeVars>>

GroupInit ==
    /\ InitLock /\ InitStore /\ InitMergeIdle
    /\ InitUrlIdle /\ InitUnifyIdle /\ InitGroup /\ InitClipLoaded /\ InitPathIdle /\ InitRescrapeIdle

GroupSpec == GroupInit /\ [][GroupNext]_vars

(***************************************************************************)
(* The two strategies on images arrays about as long as the embedding      *)
(* analysis takes: MAX_IMAGES_FOR_CLIP images, up to MaxOver fewer or more. *)
(***************************************************************************)
MaxOver == 1

\* the array of n images that repeats the images of pattern
Cycle(pattern, n) == [i \in 1..n |-> pattern[((i - 1) % Len(pattern)) + 1]]

LongLists ==
    {Cycle(pattern, n) : pattern \in ImageLists(2) \ {<<>>},
                         n \in (MAX_IMAGES_FOR_CLIP - MaxOver)..(MAX_IMAGES_FOR_CLIP + MaxOver)}

InitLong ==
    /\ requestImages \in LongLists
    /\ analyses = EmptyObject
    /\ dedupes = EmptyObject
    /\ clipAnalyses = EmptyObject

LongNext ==
    \/ AnalyzeHashes
          /\ UNCHANGED <<lockVars, storeVars, mergeVars, urlVars, unifyVars, clipVars, pathVars, rescrapeVars>>
    \/ AnalyzeEmbeddings
          /\ UNCHANGED <<lockVars, storeVars, mergeVars, urlVars, unifyVars, clipVars, pathVars, rescrapeVars>>

LongInit ==
    /\ InitLock /\ InitStore /\ InitMergeIdle
    /\ InitUrlIdle /\ InitUnifyIdle /\ InitLong /\ InitClipLoaded /\ InitPathIdle /\ InitRescrapeIdle

LongSpec == LongInit /\ [][LongNext]_vars

(***************************************************************************)
(* getClipPipeline, the preload at startup and POST /api/images/analyze.   *)
(***************************************************************************)
MaxLoads == 2

\* a getClipPipeline that does not look whether a load is in progress
LoadInProgressIgnored == FALSE

\* if (clipModelLoading)
LoadInProgress == clipModelLoading

\* a getClipPipeline that does not remember that the load failed
AlreadyFailedForgotten == FALSE

\* if (clipModelFailed)
AlreadyFailed == clipModelFailed

\* getClipPipeline from its call to its first await or its return
CallGetClipPipeline(c, rec) ==
    IF clipPipeline # Null
    THEN /\ callers' = [callers EXCEPT ![c] = [rec EXCEPT !.pc = "returned",
                                                          !.value = clipPipeline]]
         /\ UNCHANGED <<clipPipeline, clipModelLoading, clipModelFailed, loadsStarted>>
    ELSE IF AlreadyFailed
    THEN /\ callers' = [callers EXCEPT ![c] = [rec EXCEPT !.pc = "returned", !.value = Null]]
         /\ UNCHANGED <<clipPipeline, clipModelLoading, clipModelFailed, loadsStarted>>
    ELSE IF LoadInProgress
    THEN /\ callers' = [callers EXCEPT ![c] = [rec EXCEPT !.pc = "waiting", !.waited = TRUE]]
         /\ UNCHANGED <<clipPipeline, clipModelLoading, clipModelFailed, loadsStarted>>
    ELSE /\ loadsStarted < MaxLoads
         /\ clipModelLoading' = TRUE
         /\ loadsStarted' = loadsStarted + 1
         /\ callers' = [callers EXCEPT ![c] = [rec EXCEPT !.pc = "loading"]]
         /\ UNCHANGED <<clipPipeline, clipModelFailed>>

\* getClipPipeline() at the top level of the module, before any request is served
Preload ==
    /\ callers["preload"].pc = "idle"
    /\ CallGetClipPipeline("preload", NotCalling)

\* the import and the pipeline promise resolved
LoadSucceeds(c) ==
    /\ callers[c].pc = "loading"
    /\ clipPipeline' = Extractor
    /\ clipModelLoading' = FALSE
    /\ callers' = [callers EXCEPT ![c].pc = "returned", ![c].value = Extractor]
    /\ UNCHANGED <<clipModelFailed, loadsStarted>>

\* the import or the pipeline promise rejected: the catch block
LoadFails(c) ==
    /\ callers[c].pc = "loading"
    /\ clipPipeline' = Null
    /\ clipModelFailed' = TRUE
    /\ clipModelLoading' = FALSE
    /\ callers' = [callers EXCEPT ![c].pc = "returned", ![c].value = Null]
    /\ UNCHANGED loadsStarted

\* the 100 ms timer of a waiting caller fired and the load is over
WaitOver(c) ==
    /\ callers[c].pc = "waiting"
    /\ ~clipModelLoading
    /\ callers' = [callers EXCEPT ![c].pc = "returned", ![c].value = clipPipeline]
    /\ UNCHANGED <<clipPipeline, clipModelLoading, clipModelFailed, loadsStarted>>

\* req.body.images of the analyze requests; null when the body has none
AnalyzeBodies == {Null, <<[local |-> "a.jpg"], [local |-> "b.jpg"]>>,
                  <<[local |-> "a.jpg"], [local |-> "gone.jpg"]>>}

DEFAULT_CLIP_THRESHOLD == 92

\* POST /api/images/analyze up to its await of getClipPipeline
AnalyzeRequest(c, body) ==
    /\ c # "preload"
    /\ callers["preload"].pc # "idle"
    /\ callers[c].pc \in {"idle", "answered"}
    /\ IF body = Null
       THEN /\ callers' = [callers EXCEPT ![c] =
                              [NotCalling EXCEPT !.pc = "answered",
                                  !.response = [status |-> 400,
                                                error |-> "Images array is required"]]]
            /\ UNCHANGED <<clipPipeline, clipModelLoading, clipModelFailed, loadsStarted>>
       ELSE CallGetClipPipeline(c, [NotCalling EXCEPT !.images = body])

\* an analyze endpoint that never finds the model missing
UnavailableNever(pipeline) == FALSE

\* if (!pipeline)
Unavailable(pipeline) == pipeline = Null

\* what res.json sends for the result of the analysis
AnalyzeResponse(analysis) ==
    [status |-> 200, success |-> TRUE, images |-> analysis.images,
     groups |-> analysis.groups, duplicates |-> analysis.duplicates]

\* the rest of the handler, after getClipPipeline has returned
AnalyzeAnswer(c) ==
    /\ c # "preload"
    /\ callers[c].pc = "returned"
    /\ callers' = [callers EXCEPT ![c].pc = "answered", ![c].response =
          IF Unavailable(callers[c].value)
          THEN [status |-> 503, success |-> FALSE,
                error |-> "CLIP model is not available. Image similarity analysis is disabled."]
          ELSE AnalyzeResponse(analyzeImageSimilarityCLIP(callers[c].images,
                                                          DEFAULT_CLIP_THRESHOLD))]
    /\ UNCHANGED <<clipPipeline, clipModelLoading, clipModelFailed, loadsStarted>>

ClipNext ==
    \/ Preload /\ UNCHANGED <<lockVars, storeVars, mergeVars, urlVars, unifyVars, dedupVars, pathVars, rescrapeVars>>
    \/ \E c \in ClipCallers :
          \/ LoadSucceeds(c)
                /\ UNCHANGED <<lockVars, storeVars, mergeVars, urlVars, unifyVars, dedupVars, pathVars, rescrapeVars>>
          \/ LoadFails(c)
                /\ UNCHANGED <<lockVars, storeVars, mergeVars, urlVars, unifyVars, dedupVars, pathVars, rescrapeVars>>
          \/ WaitOver(c)
                /\ UNCHANGED <<lockVars, storeVars, mergeVars, urlVars, unifyVars, dedupVars, pathVars, rescrapeVars>>
          \/ \E body \in AnalyzeBodies :
                AnalyzeRequest(c, body)
                /\ UNCHANGED <<lockVars, storeVars, mergeVars, urlVars, unifyVars, dedupVars, pathVars, rescrapeVars>>
          \/ AnalyzeAnswer(c)
                /\ UNCHANGED <<lockVars, storeVars, mergeVars, urlVars, unifyVars, dedupVars, pathVars, rescrapeVars>>

ClipInit ==
    /\ InitLock /\ InitStore /\ InitMergeIdle
    /\ InitUrlIdle /\ InitUnifyIdle /\ InitDedupIdle /\ InitClipIdle /\ InitPathIdle /\ InitRescrapeIdle

ClipSpec == ClipInit /\ [][ClipNext]_vars

(***************************************************************************)
(* The file operations driven by image paths.  A resolved path is the      *)
(* sequence of its segments from the root of the file system.              *)
(***************************************************************************)
MaxPatchImages == 1

\* the segments of a path string, the empty ones included
RECURSIVE SplitFrom(_, _, _, _)
SplitFrom(str, i, segment, segments) ==
    IF i > Len(str) THEN Append(segments, segment)
    ELSE IF SubSeq(str, i, i) = "/" THEN SplitFrom(str, i + 1, "", Append(segments, segment))
    ELSE SplitFrom(str, i + 1, segment \o SubSeq(str, i, i), segments)

\* path.join / path.resolve: "" and "." are dropped, ".." leaves a directory
RECURSIVE NormalizePath(_, _)
NormalizePath(resolved, segments) ==
    IF segments = <<>> THEN resolved
    ELSE LET segment == Head(segments)
         IN  IF segment \in {"", "."} THEN NormalizePath(resolved, Tail(segments))
             ELSE IF segment = ".."
             THEN NormalizePath(IF resolved = <<>> THEN <<>>
                                ELSE SubSeq(resolved, 1, Len(resolved) - 1),
                                Tail(segments))
             ELSE NormalizePath(Append(resolved, segment), Tail(segments))

\* path.join(dir, str) for a resolved directory
PathJoin(dir, str) == NormalizePath(dir, SplitFrom(str, 1, "", <<>>))

\* path.basename(str)
Basename(str) ==
    LET named == SelectSeq(SplitFrom(str, 1, "", <<>>), LAMBDA segment : segment # "")
    IN  IF named = <<>> THEN "" ELSE named[Len(named)]

\* __dirname and the two roots
Dirname == <<"app">>
DownloadsRoot == Dirname \o <<"downloads">>
PublicRoot == Dirname \o <<"public">>

\* fullPath.startsWith(dir + path.sep) || fullPath === dir
Within(dir, fullPath) ==
    Len(fullPath) >= Len(dir) /\ SubSeq(fullPath, 1, Len(dir)) = dir

isAllowed(fullPath) == Within(DownloadsRoot, fullPath) \/ Within(PublicRoot, fullPath)

\* the path getImageEmbedding resolves
EmbeddingPath(imagePath) ==
    IF StartsWith(imagePath, "/downloads/") \/ StartsWith(imagePath, "downloads/")
    THEN PathJoin(Dirname, imagePath)
    ELSE IF ~StartsWith(imagePath, "/") THEN PathJoin(PublicRoot, imagePath)
    ELSE PathJoin(<<>>, imagePath)

\* the image paths a request may carry
RequestPaths ==
    {"/downloads/L1/images/image_1.jpg", "logo.png", "../server.js",
     "/downloads/../server.js", "../../secret.txt", "/secret.txt"}

\* the local path the scrapers write for an image they downloaded
ScrapedLocals == {"/downloads/L2/images/image_2.jpg"}

InitPath ==
    /\ fsFiles = {<<"app", "server.js">>, <<"secret.txt">>, <<"app", "public", "logo.png">>,
                  <<"app", "downloads", "L1", "images", "image_1.jpg">>,
                  <<"app", "downloads", "L2", "images", "image_2.jpg">>}
    /\ storedLocals = <<"/downloads/L1/images/image_1.jpg">>
    /\ touched = {}

\* getImageEmbedding up to the call of the extractor
EmbedImage(imagePath) ==
    /\ LET fullPath == EmbeddingPath(imagePath)
       IN  touched' = IF isAllowed(fullPath) /\ fullPath \in fsFiles
                      THEN {[op |-> "read", path |-> fullPath]}
                      ELSE {}
    /\ UNCHANGED <<fsFiles, storedLocals>>

\* PATCH /api/listings/:id with images: the files of the images left out are
\* deleted, the images of the request are stored
PatchImages(newImagePaths) ==
    /\ LET removed == {PathJoin(Dirname, storedLocals[k]) : k \in
                          {k \in 1..Len(storedLocals) :
                              /\ storedLocals[k] # ""
                              /\ storedLocals[k] \notin Range(newImagePaths)}}
                      \cap fsFiles
       IN  /\ touched' = {[op |-> "delete", path |-> imgPath] : imgPath \in removed}
           /\ fsFiles' = fsFiles \ removed
    /\ storedLocals' = newImagePaths

\* POST /api/listings/merge: one image of merged.images is copied into the
\* folder of the unified listing
UnifyCopy(local) ==
    /\ LET sourcePath == PathJoin(PublicRoot, local)
           altSourcePath == PathJoin(Dirname, local)
           actualSource == IF sourcePath \in fsFiles THEN sourcePath ELSE altSourcePath
           destPath == DownloadsRoot \o <<"unified_1", "images", Basename(local)>>
       IN  IF actualSource \in fsFiles /\ destPath \notin fsFiles
           THEN /\ touched' = {[op |-> "read", path |-> actualSource],
                               [op |-> "write", path |-> destPath]}
                /\ fsFiles' = fsFiles \cup {destPath}
           ELSE /\ touched' = {}
                /\ UNCHANGED fsFiles
    /\ UNCHANGED storedLocals

\* mergeWithExistingListing: one image of the new scrape is copied into the
\* folder of the stored listing
ScrapeMergeCopy(local) ==
    /\ LET srcPath == PathJoin(Dirname, local)
           destPath == DownloadsRoot \o <<"L1", "images", Basename(local)>>
       IN  IF srcPath \in fsFiles /\ destPath \notin fsFiles
           THEN /\ touched' = {[op |-> "read", path |-> srcPath],
                               [op |-> "write", path |-> destPath]}
                /\ fsFiles' = fsFiles \cup {destPath}
           ELSE /\ touched' = {}
                /\ UNCHANGED fsFiles
    /\ UNCHANGED storedLocals

PathNext ==
    \/ \E imagePath \in RequestPaths :
          EmbedImage(imagePath)
          /\ UNCHANGED <<lockVars, storeVars, mergeVars, urlVars, unifyVars, dedupVars, clipVars, rescrapeVars>>
    \/ \E newImagePaths \in ArraysUpTo(RequestPaths, MaxPatchImages) :
          PatchImages(newImagePaths)
          /\ UNCHANGED <<lockVars, storeVars, mergeVars, urlVars, unifyVars, dedupVars, clipVars, rescrapeVars>>
    \/ \E local \in RequestPaths :
          UnifyCopy(local)
          /\ UNCHANGED <<lockVars, storeVars, mergeVars, urlVars, unifyVars, dedupVars, clipVars, rescrapeVars>>
    \/ \E local \in ScrapedLocals :
          ScrapeMergeCopy(local)
          /\ UNCHANGED <<lockVars, storeVars, mergeVars, urlVars, unifyVars, dedupVars, clipVars, rescrapeVars>>

PathInit ==
    /\ InitLock /\ InitStore /\ InitMergeIdle
    /\ InitUrlIdle /\ InitUnifyIdle /\ InitDedupIdle /\ InitClipIdle /\ InitPath /\ InitRescrapeIdle

PathSpec == PathInit /\ [][PathNext]_vars

(***************************************************************************)
(* The listing handlers on the store, within the first 100 ms after start: *)
(* before a waiting acquire polls again and before the first sweep.        *)
(***************************************************************************)
StoreNext ==
    \E r \in Reqs :
          \/ \E id \in ListingIds : DeleteRequest(r, id) /\ UNCHANGED <<mergeVars, toolVars>>
          \/ \E id \in ListingIds : PatchRequest(r, id, EditBody) /\ UNCHANGED <<mergeVars, toolVars>>
          \/ \E id \in ListingIds : UpdateRequest(r, id) /\ UNCHANGED <<mergeVars, toolVars>>
          \/ DeleteFind(r) /\ UNCHANGED <<mergeVars, toolVars>>
          \/ DeleteRm(r) /\ UNCHANGED <<mergeVars, toolVars>>
          \/ PatchFind(r) /\ UNCHANGED <<mergeVars, toolVars>>
          \/ PatchWrite(r) /\ UNCHANGED <<mergeVars, toolVars>>
          \/ PatchWriteDescription(r) /\ UNCHANGED <<mergeVars, toolVars>>
          \/ UpdateFind(r) /\ UNCHANGED <<mergeVars, toolVars>>
          \/ UpdateBackup(r) /\ UNCHANGED <<mergeVars, toolVars>>
          \/ \E scraped \in Scrapes(req[r].id) : UpdateSave(r, scraped) /\ UNCHANGED <<mergeVars, toolVars>>
          \/ UpdateScrapeFails(r) /\ UNCHANGED <<mergeVars, toolVars>>
          \/ \E scraped \in Scrapes(req[r].id) : UpdateSaveFails(r, scraped) /\ UNCHANGED <<mergeVars, toolVars>>
          \/ UpdateRestore(r) /\ UNCHANGED <<mergeVars, toolVars>>

StoreSpec == ServerInit /\ [][StoreNext]_vars

(***************************************************************************)
(* Edits of the location and the coordinates of a listing, one request at  *)
(* a time.                                                                 *)
(***************************************************************************)
GpsBodies ==
    { [gps |-> "45,90"], [gps |-> "-90, 180"], [gps |-> "91,0"], [gps |-> "0,-181"],
      [gps |-> "x,1"], [gps |-> "45"],
      [title |-> "Beach House", gps |-> "-91,181"],
      [location |-> "1 Sea Road, Nice, France"],
      [location |-> "Nice", gps |-> "43,7"] }

EditNext ==
    \/ \E body \in GpsBodies : PatchRequest("r1", "L1", body) /\ UNCHANGED <<mergeVars, toolVars>>
    \/ PatchFind("r1") /\ UNCHANGED <<mergeVars, toolVars>>
    \/ PatchWrite("r1") /\ UNCHANGED <<mergeVars, toolVars>>

EditSpec == ServerInit /\ [][EditNext]_vars

(***************************************************************************)
(* The images of a listing over a re-scrape: the scraper downloads the     *)
(* pictures of the page into the images directory of the listing's folder, *)
(* and the update handler merges the images it reports into the stored     *)
(* metadata.                                                               *)
(***************************************************************************)
MAX_DOWNLOADED == 5
MaxPage == 3
PageUrls == {"https://img/1", "https://img/2", "https://img/3"}

\* data.images of the scraped page: its pictures, in the order of the page
Pages ==
    {page \in ArraysUpTo(PageUrls, MaxPage) :
        page # <<>> /\ \A i, j \in 1..Len(page) : i # j => page[i] # page[j]}

\* `image_${i + 1}.${ext}`, ext 'jpg'; i counts from 1 here
ImageName(i) == "image_" \o <<"1", "2", "3", "4", "5">>[i] \o ".jpg"

\* the download loop of the scraper: the pictures whose download is in failing
\* are skipped, the others are written to images/ under the name of their
\* position and reported; files is images/ before the loop
DownloadImages(folderId, images, files, failing) ==
    LET tried == 1..(IF Len(images) < MAX_DOWNLOADED THEN Len(images) ELSE MAX_DOWNLOADED)
        written == tried \ failing
        entries == [i \in tried |-> [original |-> images[i], local |-> <<folderId, ImageName(i)>>]]
    IN  [downloadedImages |-> SelectSeq(entries, LAMBDA e : \E i \in written : entries[i] = e),
         files |-> [name \in DOMAIN files \cup {ImageName(i) : i \in written} |->
                      IF \E i \in written : ImageName(i) = name
                      THEN images[CHOOSE i \in written : ImageName(i) = name]
                      ELSE files[name]]]

\* the listing as its first scrape left it
InitRescrape ==
    \E page \in Pages : \E failing \in AtMostOne(1..Len(page)) :
        LET scraped == DownloadImages("L1", page, EmptyObject, failing)
        IN  /\ listingImages = scraped.downloadedImages
            /\ keptImages = <<>>
            /\ imageFiles = scraped.files
            /\ updates = 0

\* POST /api/listings/:id/update, answered with success: the re-scrape of the
\* page, then the merge of the new metadata into the existing one and the save
UpdateImages(page, failing) ==
    /\ updates < MaxUpdates
    /\ LET scraped == DownloadImages("L1", page, imageFiles, failing)
       IN  /\ imageFiles' = scraped.files
           /\ listingImages' = mergeImages(listingImages, scraped.downloadedImages)
    /\ keptImages' = listingImages
    /\ updates' = updates + 1

RescrapeNext ==
    \E page \in Pages : \E failing \in AtMostOne(1..Len(page)) :
        /\ UpdateImages(page, failing)
        /\ UNCHANGED <<lockVars, storeVars, mergeVars, urlVars, unifyVars, dedupVars, clipVars, pathVars>>

RescrapeInit ==
    /\ InitLock /\ InitStore /\ InitMergeIdle
    /\ InitUrlIdle /\ InitUnifyIdle /\ InitDedupIdle /\ InitClipIdle /\ InitPathIdle /\ InitRescrape

RescrapeSpec == RescrapeInit /\ [][RescrapeNext]_vars

(***************************************************************************)
(* Properties of the lock manager.                                         *)
(***************************************************************************)
\* C1: in every interleaving of acquire, release and the stale-lock sweep, at
\* most one request is inside the locked section of a given listing id: two
\* acquires of the same id never both succeed without a release in between.
C1_MutualExclusion ==
    \A r1, r2 \in Reqs :
        r1 # r2 /\ req[r1].holds /\ req[r2].holds => req[r1].id # req[r2].id

\* the request looks at the lock again after its 100 ms sleep
Polls(r) == req[r].pc = "sleeping" /\ req'[r] # req[r]

\* C3: an acquire whose lock is still held when it looks again fails with the
\* lock-timeout error (answered 409) as soon as more than the timeout has elapsed
\* since the call started, and not before; it then registers no lock; and a
\* waiting call always has its next look at the lock scheduled at most 100 ms
\* ahead, so it does not wait forever.
C3_TimeoutFails ==
    /\ [][\A r \in Reqs :
            Polls(r) /\ req[r].id \in DOMAIN listingLocks =>
               IF now - req[r].startTime > 30000
               THEN /\ req'[r].pc = "idle" /\ ~req'[r].holds
                    /\ lastStatus' = 409
                    /\ listingLocks' = listingLocks
               ELSE req'[r].pc = "sleeping" /\ listingLocks' = listingLocks]_vars
    /\ [](\A r \in Reqs :
            req[r].pc = "sleeping" =>
               /\ req[r].wakeAt <= now + 100
               /\ req[r].wakeAt > req[r].startTime
               /\ ~req[r].holds)

\* a request has just been refused with 409 while the other one holds the lock
C3_Witness ==
    /\ lastStatus = 409
    /\ \E r1, r2 \in Reqs :
          /\ req[r1].holds /\ req[r1].id \in DOMAIN listingLocks
          /\ req[r2].pc = "idle"
    /\ now - 30000 > 0

\* C4 as claimed: the sweep removes a lock if and only if its age at sweep time
\* exceeds the staleness threshold, and the threshold is 20 times the sweep interval.
C4_SweepTwentyIntervals ==
    [][lastSweep' # lastSweep =>
          \A id \in DOMAIN listingLocks :
             id \notin DOMAIN listingLocks' <=>
                now - listingLocks[id] > 20 * SWEEP_INTERVAL_MS]_vars

\* C4 as amended: the sweep removes a lock if and only if its age at sweep time
\* exceeds the staleness threshold, and the threshold is 2 times the sweep
\* interval (60000 ms against 30000 ms).
C4_SweepTwoIntervals ==
    [][lastSweep' # lastSweep =>
          \A id \in DOMAIN listingLocks :
             id \notin DOMAIN listingLocks' <=>
                now - listingLocks[id] > 2 * SWEEP_INTERVAL_MS]_vars

\* the sweep has just run and reclaimed the lock of a request that is still in
\* its locked section
C4_Witness ==
    /\ lastSweep = now /\ now > 0
    /\ \E r \in Reqs : req[r].holds /\ req[r].id \notin DOMAIN listingLocks

(***************************************************************************)
(* Properties of the merge engine.                                         *)
(***************************************************************************)
ArrayFields == CollectionFields \cup {"images"}

\* C5: the additive merge result has at least as many entries as the existing
\* listing in each of amenities, images, houseRules, highlights and safetyItems,
\* for every existing listing and every incoming scrape.
C5_NeverShrinks ==
    phase = "merged" =>
        \A f \in ArrayFields : Len(result[f]) >= Len(ArrayOf(existing, f))

NonEmpty(obj, f) == f \in DOMAIN obj /\ obj[f] \notin {Null, ""}

ProtectedFieldSet == Range(protectedStringFields)

\* C6: a protected field whose existing value is non-empty keeps exactly that
\* value through the additive merge; one whose existing value is null, undefined
\* or '' takes a non-empty incoming value; and over any sequence of merges a
\* protected field, once non-empty, never changes. The scrape-time merge
\* treats title and description the same way.
C6_ProtectedFirstWriteWins ==
    /\ [](phase \in {"merged", "again"} =>
            \A f \in ProtectedFieldSet :
               /\ NonEmpty(existing, f) => NonEmpty(result, f) /\ result[f] = existing[f]
               /\ ~NonEmpty(existing, f) /\ NonEmpty(newData, f) =>
                     NonEmpty(result, f) /\ result[f] = newData[f]
               /\ phase = "again" /\ NonEmpty(result, f) =>
                     NonEmpty(again, f) /\ again[f] = result[f])
    /\ [](phase = "scrapeMerged" =>
            \A f \in {"title", "description"} :
               /\ NonEmpty(existing, f) => NonEmpty(result, f) /\ result[f] = existing[f]
               /\ ~NonEmpty(existing, f) /\ NonEmpty(newData, f) =>
                     NonEmpty(result, f) /\ result[f] = newData[f])
    /\ [][\A f \in ProtectedFieldSet :
             NonEmpty(existing, f) => NonEmpty(existing', f) /\ existing'[f] = existing[f]]_vars

\* a title is kept against another incoming title, in a listing that already
\* went through a merge
C6_Witness ==
    /\ phase = "merged"
    /\ UpdateCountOf(existing) >= 1
    /\ NonEmpty(existing, "title") /\ NonEmpty(newData, "title")
    /\ existing.title # newData.title
    /\ result.title = existing.title

\* C7: merging the same incoming payload a second time yields the same contents,
\* as sets, of amenities, houseRules, highlights, safetyItems and images as the
\* first merge, while updateCount and updateHistory each advance by one more.
C7_Idempotent ==
    phase = "again" =>
        /\ \A f \in ArrayFields : Range(again[f]) = Range(result[f])
        /\ result.updateCount = UpdateCountOf(existing) + 1
        /\ again.updateCount = result.updateCount + 1
        /\ Len(result.updateHistory) = Len(ArrayOf(existing, "updateHistory")) + 1
        /\ Len(again.updateHistory) = Len(result.updateHistory) + 1

\* the first merge added an amenity or an image to a listing merged before, and
\* the second merge was applied
C7_Witness ==
    /\ phase = "again"
    /\ \/ Len(result.amenities) > Len(ArrayOf(existing, "amenities"))
       \/ Len(result.images) > Len(ArrayOf(existing, "images"))
    /\ UpdateCountOf(existing) >= 1

NoDuplicateOriginal(imgs) ==
    \A i, j \in 1..Len(imgs) :
        i # j /\ NonEmpty(imgs[i], "original") /\ NonEmpty(imgs[j], "original")
            => imgs[i].original # imgs[j].original

Mutating(r) ==
    \/ req[r].kind = "delete" /\ req[r].pc = "rm"
    \/ req[r].kind = "patch" /\ req[r].pc \in {"write", "writeDescription"}
    \/ req[r].kind = "update" /\ req[r].pc \in {"backup", "scrape", "restore"}

\* C2: every operation that mutates a stored listing's metadata.json runs while
\* holding that listing's lock, so two merge operations on the same listing id
\* are never in flight at the same time.
C2_MutationsHoldLock ==
    /\ \A r \in Reqs : Mutating(r) => req[r].holds
    /\ \A r1, r2 \in Reqs :
          r1 # r2 /\ Mutating(r1) /\ Mutating(r2) => req[r1].id # req[r2].id

\* C8: after any sequence of requests, concurrent ones included, every stored
\* listing's updateCount equals the number of additive merges completed on it
\* since creation, and its updateHistory is as long as its updateCount.
C8_UpdateCountMatches ==
    (\A r \in Reqs : req[r].pc = "idle") =>
        \A f \in DOMAIN disk :
           /\ UpdateCountOf(disk[f]) = CompletedOf(disk[f].id)
           /\ Len(ArrayOf(disk[f], "updateHistory")) = UpdateCountOf(disk[f])

\* C10: if a re-scrape update of a listing (one that has not been deleted in the
\* meantime) fails after its backup was taken, then when the handler has
\* responded the listing's metadata.json equals the metadata it had before the
\* update began, also when another update of the listing runs concurrently.
C10_FailedUpdateRestores ==
    [][\A r \in Reqs :
          /\ req[r].kind = "update" /\ req[r].pc = "restore" /\ req'[r].pc = "idle"
          /\ req[r].backedUp
          /\ Has(completed, req[r].id)
          => Has(disk', req[r].folder) /\ disk'[req[r].folder] = req[r].before]_vars
(***************************************************************************)
(* Properties of normalizeUrl.                                             *)
(***************************************************************************)
HasChar(str, c) == FirstOf(str, {c}, 1) <= Len(str)

\* C20: for every well-formed URL u, normalize(u) equals
\* normalize(u + "?utm_source=x"): the origin followed by the path without its
\* trailing slash, with no query and no fragment; for a string that does not
\* parse as a URL, normalize returns the string unchanged.
C20_NormalizeStable ==
    /\ normalizedUrl # Null /\ UrlParses(url) =>
          /\ normalizedTracked # Null => normalizedTracked = normalizedUrl
          /\ ~HasChar(normalizedUrl, "?") /\ ~HasChar(normalizedUrl, "#")
          /\ StartsWith(url, normalizedUrl)
          /\ normalizedUrl \o "/" = UrlOrigin(url) \o UrlPathname(url)
                \/ normalizedUrl = UrlOrigin(url) \o UrlPathname(url)
    /\ normalizedUrl # Null /\ ~UrlParses(url) => normalizedUrl = url

\* a URL with a trailing slash, a query and a fragment has been normalized, with
\* and without the tracking query appended
C20_Witness ==
    /\ normalizedUrl # Null /\ normalizedTracked # Null
    /\ url = "https://airbnb.com/rooms/?a=1#b"
    /\ normalizedUrl = "https://airbnb.com/rooms"
SourcesOf(listing) ==
    IF IsUnified(listing) /\ Has(listing, "sources") THEN listing.sources ELSE EmptyObject

\* the entries the sources object is to hold for one input of the unification
ContributedBy(listing) ==
    IF ~Found(listing) THEN EmptyObject
    ELSE IF IsUnified(listing) THEN SourcesOf(listing)
    ELSE Put(EmptyObject, PlatformOf(listing), SourceEntry(listing))

Holds(sources, entries) ==
    \A p \in DOMAIN entries : Has(sources, p) /\ sources[p] = entries[p]

\* C25: after a unification the sources object holds the entry { id, url, title }
\* of each input that is not unified, under its platform, and every entry of the
\* sources of each input that is unified; over repeated unifications into one
\* unified listing no platform key of its sources is dropped.
C25_SourcesAccumulate ==
    /\ [](unified # EmptyObject =>
             /\ Holds(unified.sources, ContributedBy(leftStored))
             /\ Holds(unified.sources, ContributedBy(rightStored)))
    /\ [][unified # EmptyObject =>
             DOMAIN unified.sources \subseteq DOMAIN unified'.sources]_vars

\* C26: a copy of one image that fails during a unification does not abort it:
\* the request is answered with success and a merged record has been written.
C26_CopyFailureDoesNotAbort ==
    copyThrew => unifyStatus = 200 /\ unified # EmptyObject

\* the images of the request body that have a local file, in their order
WithLocal(merged) == SelectSeq(ArrayOf(merged, "images"), LAMBDA img : Has(img, "local"))

\* C29: after a unification, images of the final list that come from different
\* source files are different files of the unified folder, and the file of each
\* entry holds the bytes of the entry's own source file, also when two sources
\* use one file name.
C29_DistinctFilesPerSource ==
    (unifyStatus = 200 /\ ~copyThrew) =>
        LET sources == WithLocal(mergedBody)
        IN  /\ Len(unified.images) = Len(sources)
            /\ \A i \in 1..Len(sources) :
                  /\ unified.images[i].local[1] = unified.folder
                  /\ Has(unifiedFiles, unified.images[i].local[2])
                  /\ unifiedFiles[unified.images[i].local[2]] = sources[i].local
            /\ \A i, j \in 1..Len(sources) :
                  sources[i].local # sources[j].local
                     => unified.images[i].local # unified.images[j].local
(***************************************************************************)
(* Properties of the edits.                                                *)
(***************************************************************************)
\* the coordinates of the body are two numbers, the latitude outside
\* [-90, 90] or the longitude outside [-180, 180]
OutOfRange(body) ==
    /\ Has(body, "gps")
    /\ LET parts == Split(body.gps, ",")
       IN  /\ Len(parts) >= 2
           /\ ~parseFloat(Trim(parts[1])).isNaN /\ ~parseFloat(Trim(parts[2])).isNaN
           /\ \/ parseFloat(Trim(parts[1])).value < -90
              \/ parseFloat(Trim(parts[1])).value > 90
              \/ parseFloat(Trim(parts[2])).value < -180
              \/ parseFloat(Trim(parts[2])).value > 180

\* C27: an edit whose coordinates are out of range is rejected with an error
\* and changes nothing: no step of the request writes the listing's
\* metadata.json, and the response that ends it is an error.
C27_OutOfRangeRejected ==
    [][\A r \in Reqs :
          (req[r].kind = "patch" /\ OutOfRange(req[r].body))
             => /\ disk' = disk
                /\ req'[r].pc = "idle" => lastStatus' >= 400]_vars
(***************************************************************************)
(* Properties of the lock at the end of a request.                         *)
(***************************************************************************)
\* the request ends in this step
Ends(r) == req[r].pc # "idle" /\ req'[r].pc = "idle"

\* C28: when a DELETE or PATCH request that acquired the lock ends, on whatever
\* path (success, listing not found, an exception in the locked section), the
\* lock map has no lock for its listing id; a request whose acquire timed out is
\* answered 409 and leaves the lock map and the listings as they were.
C28_LockReleasedOnEveryPath ==
    [][\A r \in Reqs :
          /\ (Ends(r) /\ req[r].holds) => req[r].id \notin DOMAIN listingLocks'
          /\ (Ends(r) /\ ~req[r].holds) =>
                /\ lastStatus' = 409
                /\ listingLocks' = listingLocks
                /\ disk' = disk]_vars

\* a request that held the lock has just ended in an exception, and no lock is
\* left
C28_Witness ==
    /\ lastStatus = 500
    /\ listingLocks = EmptyObject
    /\ \A r \in Reqs : req[r].pc = "idle"
    /\ Has(disk, "L1")
(***************************************************************************)
(* Properties of the catalogue.                                            *)
(***************************************************************************)
\* the stored listing still holds what it held and keeps its non-empty title and
\* description
FoldedInto(before, after) ==
    /\ Range(ArrayOf(before, "images")) \subseteq Range(ArrayOf(after, "images"))
    /\ Range(ArrayOf(before, "amenities")) \subseteq Range(ArrayOf(after, "amenities"))
    /\ Range(ArrayOf(before, "houseRules")) \subseteq Range(ArrayOf(after, "houseRules"))
    /\ \A f \in {"title", "description"} :
          NonEmpty(before, f) => Has(after, f) /\ after[f] = before[f]

\* C11: when a scrape request succeeds for a URL whose normalized form equals the
\* normalized sourceUrl of a stored listing, that listing is still stored
\* afterwards, with every image, amenity and house rule it held before and with
\* its non-empty title and description unchanged.
C11_ScrapeFoldsIntoStored ==
    [][\A r \in Reqs :
          (/\ req[r].kind = "scrape" /\ req[r].pc = "scraping"
           /\ req'[r].pc = "idle" /\ lastStatus' = 200)
          => \A f \in DOMAIN disk :
                (/\ Truthy(disk[f], "sourceUrl")
                 /\ normalizeUrl(disk[f].sourceUrl) = normalizeUrl(req[r].body.url))
                => f \in DOMAIN disk' /\ FoldedInto(disk[f], disk'[f])]_vars

\* C19: a stored listing whose platform is unified is, after any step of the
\* catalogue (edit, re-scrape update, scrape-time merge, further unification),
\* either stored with platform unified or no longer stored: by folder and by id.
C19_UnifiedStaysUnified ==
    [][\A f \in DOMAIN disk :
          IsUnified(disk[f]) =>
              /\ f \in DOMAIN disk' => IsUnified(disk'[f])
              /\ \A g \in DOMAIN disk' :
                    IdOf(disk'[g]) = IdOf(disk[f]) => IsUnified(disk'[g])]_vars

\* a unified listing that has been edited, updated by a re-scrape and unified again
C19_Witness ==
    \E f \in DOMAIN disk :
        /\ IsUnified(disk[f])
        /\ Has(disk[f], "updatedAt")
        /\ Has(disk[f], "editedAt")
        /\ UpdateCountOf(disk[f]) >= 1
(***************************************************************************)
(* Properties of image similarity.                                         *)
(***************************************************************************)
\* the images a dedupe removed
Removed(t) == Len(requestImages) - Len(dedupes[t])

\* C12: for the images array of the requests, a hash analysis at a higher
\* threshold never reports fewer duplicates than one at a lower threshold, and a
\* dedupe at a higher threshold never removes fewer images.
C12_ThresholdMonotone ==
    /\ \A t1 \in DOMAIN analyses : \A t2 \in DOMAIN analyses :
          t1 <= t2 => analyses[t1].duplicates <= analyses[t2].duplicates
    /\ \A t1 \in DOMAIN dedupes : \A t2 \in DOMAIN dedupes :
          t1 <= t2 => Removed(t1) <= Removed(t2)
\* the entries an analysis reports as not duplicate, as the images they stand for
Canonical(analysis) ==
    LET originals == SelectSeq(analysis.images, LAMBDA e : ~e.isDuplicate)
    IN  [k \in 1..Len(originals) |-> [local |-> originals[k].local]]

\* C13: at every threshold, what dedupe returns is the sequence of the
\* non-duplicate entries of the analysis of the same images, in the order of the
\* analysis, which has one of them per group, each the first of its group, the
\* groups in the order in which their first images come in the array.
C13_DedupeIsCanonical ==
    \A t \in DOMAIN dedupes :
        /\ dedupes[t] = Canonical(analyses[t])
        /\ Len(dedupes[t]) = analyses[t].groups
        /\ \A g \in 1..Len(analyses[t].grouping) :
              /\ dedupes[t][g] = [local |-> Head(analyses[t].grouping[g]).local]
              /\ \A k \in 1..Len(analyses[t].grouping[g]) :
                    analyses[t].grouping[g][k].isDuplicate <=> k > 1
              /\ \A h \in 1..(g - 1) :
                    Head(analyses[t].grouping[h]).originalIndex
                       < Head(analyses[t].grouping[g]).originalIndex

\* a dedupe that removed images and kept one that has no hash
C13_Witness ==
    \E t \in DOMAIN dedupes :
        /\ Len(dedupes[t]) < Len(requestImages)
        /\ Len(dedupes[t]) >= 2
        /\ \E k \in 1..Len(dedupes[t]) : getImageHash(dedupes[t][k].local) = Null

\* the positions of the images of the request without a fingerprint
Unhashed == {i \in 1..Len(requestImages) : getImageHash(requestImages[i].local) = Null}

Unembedded == {i \in 1..Len(requestImages) : getImageEmbedding(requestImages[i].local) = Null}

\* every image of nulls is reported once, as not duplicate, and is alone in its group
AloneAndUnique(analysis, nulls) ==
    /\ \A i \in nulls :
          Cardinality({k \in 1..Len(analysis.images) :
                          analysis.images[k].originalIndex = i - 1}) = 1
    /\ \A k \in 1..Len(analysis.images) :
          analysis.images[k].originalIndex + 1 \in nulls => ~analysis.images[k].isDuplicate
    /\ \A g \in 1..Len(analysis.grouping) : \A k \in 1..Len(analysis.grouping[g]) :
          analysis.grouping[g][k].originalIndex + 1 \in nulls
             => Len(analysis.grouping[g]) = 1

\* C14: an image whose hash is null is reported by every hash analysis as not
\* duplicate and alone in its group, and every dedupe returns it as often as the
\* request holds it; an image whose embedding is null is reported by every
\* embedding analysis as not duplicate and alone in its group.
C14_NullFingerprintUnique ==
    /\ \A t \in DOMAIN analyses : AloneAndUnique(analyses[t], Unhashed)
    /\ \A t \in DOMAIN clipAnalyses : AloneAndUnique(clipAnalyses[t], Unembedded)
    /\ \A t \in DOMAIN dedupes :
          Cardinality({k \in 1..Len(dedupes[t]) : getImageHash(dedupes[t][k].local) = Null})
             = Cardinality(Unhashed)

\* images without fingerprint among images that both strategies group
C14_Witness ==
    /\ Unhashed # {}
    /\ Unembedded # Unhashed
    /\ \E t \in DOMAIN dedupes : Len(dedupes[t]) < Len(requestImages)
    /\ \E t \in DOMAIN analyses : analyses[t].duplicates >= 1
    /\ \E t \in DOMAIN clipAnalyses : clipAnalyses[t].duplicates >= 1
(***************************************************************************)
(* Properties of the CLIP model and its endpoint.                          *)
(***************************************************************************)
\* isClipAvailable()
isClipAvailable == clipPipeline # Null /\ ~clipModelFailed

\* C15: when an analyze request is answered while the CLIP model is not
\* available, the response carries no per-image result and no success; if the
\* request held an images array, the response is the 503 with the error that
\* says the model is not available.
C15_UnavailableFailsWhole ==
    [][\A c \in ClipCallers :
          (callers[c].pc # "answered" /\ callers'[c].pc = "answered" /\ ~isClipAvailable)
          => LET response == callers'[c].response
             IN  /\ ~Has(response, "images")
                 /\ ~Has(response, "duplicates")
                 /\ Has(response, "success") => ~response.success
                 /\ callers[c].pc = "returned" =>
                       /\ response.status = 503
                       /\ Has(response, "error")]_vars

\* a request with images answered 503 after the load of the model failed
C15_Witness ==
    /\ clipModelFailed
    /\ callers["q1"].pc = "answered"
    /\ callers["q1"].images # Null
    /\ callers["q1"].response.status = 503

\* C16: the load of the model is started at most once; a caller to which
\* getClipPipeline has returned got, with the load over, what the load left in
\* clipPipeline: the pipeline, or null exactly when the load failed.
C16_SingleLoad ==
    /\ loadsStarted <= 1
    /\ \A c \in ClipCallers :
          callers[c].pc = "returned" =>
              /\ ~clipModelLoading
              /\ loadsStarted = 1
              /\ callers[c].value = clipPipeline
              /\ callers[c].value = Null <=> clipModelFailed

\* two requests that waited for the load started by the preload and got its outcome
C16_Witness ==
    /\ loadsStarted = 1
    /\ \A c \in {"q1", "q2"} : callers[c].pc = "returned" /\ callers[c].waited
(***************************************************************************)
(* Properties of the file operations.                                      *)
(***************************************************************************)
\* C17: every file a handler reads, writes or deletes for an image path lies
\* inside the downloads root or the static-assets root.
C17_FileOperationsInsideRoots ==
    \A operation \in touched : isAllowed(operation.path)
(***************************************************************************)
(* Properties of the groups of the hash analysis.                          *)
(***************************************************************************)
\* the hash of the image an entry of an analysis stands for
HashOf(entry) == getImageHash(entry.local)

\* the characters in which two hashes of one length differ
Differing(hash1, hash2) ==
    Cardinality({i \in 1..Len(hash1) : SubSeq(hash1, i, i) # SubSeq(hash2, i, i)})

\* the positions of the images in the groups before group g
GroupedBefore(grouping, g) ==
    UNION {{grouping[h][k].originalIndex : k \in 1..Len(grouping[h])} : h \in 1..(g - 1)}

\* C21: in a hash analysis, an image that no earlier group holds and that comes
\* after the first image of a group is in that group exactly when the two
\* hashes have one length and differ in at most threshold characters; whether
\* it is near a duplicate of the group does not count, and two images whose
\* hashes have different lengths are never in one group.
C21_GroupsByCanonicalDistance ==
    \A t \in DOMAIN analyses :
       LET grouping == analyses[t].grouping
       IN  \A g \in 1..Len(grouping) :
              LET canonical == Head(grouping[g])
                  members == {grouping[g][k].originalIndex : k \in 1..Len(grouping[g])}
              IN  /\ \A j \in 1..Len(requestImages) :
                        LET hash == getImageHash(requestImages[j].local)
                        IN  (/\ j - 1 > canonical.originalIndex
                             /\ j - 1 \notin GroupedBefore(grouping, g)
                             /\ hash # Null
                             /\ HashOf(canonical) # Null)
                            => ((j - 1 \in members) <=>
                                   /\ Len(hash) = Len(HashOf(canonical))
                                   /\ Differing(hash, HashOf(canonical)) <= t)
                  /\ \A k \in 2..Len(grouping[g]) :
                        Len(HashOf(grouping[g][k])) = Len(HashOf(canonical))

\* at threshold 5: an image 3 from the first one is its duplicate, one 6 from
\* the first and 3 from that duplicate starts a group, and so does one with a
\* shorter hash
C21_Witness ==
    /\ requestImages = <<[local |-> "e.jpg"], [local |-> "f.jpg"],
                         [local |-> "g.jpg"], [local |-> "h.jpg"]>>
    /\ DEFAULT_HASH_THRESHOLD \in DOMAIN analyses
    /\ analyses[DEFAULT_HASH_THRESHOLD].groups = 3
    /\ Len(analyses[DEFAULT_HASH_THRESHOLD].grouping[1]) = 2
    /\ analyses[DEFAULT_HASH_THRESHOLD].grouping[1][2].similarity = 3
(***************************************************************************)
(* Properties of what an analysis returns.                                 *)
(***************************************************************************)
\* every image of the request is in one group, once, and is emitted once; the
\* first entry of a group has the lowest index of the group and is the only
\* one not a duplicate; the groups come in the order of their first images;
\* the counts add up to the images of the request
Partitions(analysis) ==
    LET grouping == analysis.grouping
    IN  /\ \A i \in 1..Len(requestImages) :
              /\ Cardinality({k \in 1..Len(analysis.images) :
                                 analysis.images[k].originalIndex = i - 1}) = 1
              /\ Cardinality({g \in 1..Len(grouping) :
                                 \E k \in 1..Len(grouping[g]) :
                                    grouping[g][k].originalIndex = i - 1}) = 1
              /\ \A k \in 1..Len(analysis.images) :
                    analysis.images[k].originalIndex = i - 1
                       => analysis.images[k].local = requestImages[i].local
        /\ \A g \in 1..Len(grouping) :
              /\ \A k \in 1..Len(grouping[g]) :
                    /\ grouping[g][k].isDuplicate <=> k > 1
                    /\ k > 1 => grouping[g][1].originalIndex < grouping[g][k].originalIndex
                    /\ Cardinality({n \in 1..Len(grouping[g]) :
                                       grouping[g][n].originalIndex
                                          = grouping[g][k].originalIndex}) = 1
              /\ \A h \in 1..(g - 1) :
                    grouping[h][1].originalIndex < grouping[g][1].originalIndex
        /\ analysis.groups + analysis.duplicates = Len(requestImages)

\* C22: an analysis of either strategy puts every image of the request into
\* exactly one group and emits it exactly once, with isDuplicate; the first
\* member of a group is its lowest-index member and its only non-duplicate;
\* the groups come in first-seen order, and the groups count plus the
\* duplicates count is the number of images of the request.
C22_AnalysisPartitionsInput ==
    /\ \A t \in DOMAIN analyses : Partitions(analyses[t])
    /\ \A t \in DOMAIN clipAnalyses : Partitions(clipAnalyses[t])

\* the longest array the embedding analysis takes whole
Limited == IF Len(requestImages) > MAX_IMAGES_FOR_CLIP
           THEN SubSeq(requestImages, 1, MAX_IMAGES_FOR_CLIP) ELSE requestImages

\* C23: an embedding analysis computes fingerprints for at most 100 images: of
\* a longer array it takes the first 100 only, and what it returns for a longer
\* array tells the caller that the array was truncated, so it is not what it
\* returns for the first 100 images sent alone.
C23_TruncationReported ==
    \A t \in DOMAIN clipAnalyses :
       /\ Len(clipAnalyses[t].images) <= MAX_IMAGES_FOR_CLIP
       /\ \A k \in 1..Len(clipAnalyses[t].images) :
             clipAnalyses[t].images[k].originalIndex < MAX_IMAGES_FOR_CLIP
       /\ Len(clipAnalyses[t].images) = Len(Limited)
       /\ Len(requestImages) > MAX_IMAGES_FOR_CLIP
             => clipAnalyses[t] # analyzeImageSimilarityCLIP(Limited, t)
(***************************************************************************)
(* Properties of the model once its load is over.                          *)
(***************************************************************************)
\* caller c calls getClipPipeline in this step
Calls(c) == callers[c].pc \in {"idle", "answered"}
               /\ callers'[c].pc \in {"returned", "waiting", "loading"}

\* C24: once a load of the model has failed, every later call of
\* getClipPipeline returns null at once and starts no load, and isClipAvailable
\* stays false; once a load has succeeded, the pipeline stays what it is and
\* every later call returns it at once.
C24_LoadOutcomeIsFinal ==
    [][/\ clipModelFailed =>
             /\ clipModelFailed' /\ clipPipeline' = Null
             /\ ~clipModelLoading' /\ loadsStarted' = loadsStarted
             /\ \A c \in ClipCallers :
                   Calls(c) => callers'[c].pc = "returned" /\ callers'[c].value = Null
       /\ clipPipeline # Null =>
             /\ clipPipeline' = clipPipeline /\ ~clipModelFailed'
             /\ ~clipModelLoading' /\ loadsStarted' = loadsStarted
             /\ \A c \in ClipCallers :
                   Calls(c) => callers'[c].pc = "returned"
                                  /\ callers'[c].value = clipPipeline]_vars

\* after the load started by the preload failed, a request called
\* getClipPipeline, got null without waiting, and was answered 503
C24_Witness ==
    /\ clipModelFailed
    /\ loadsStarted = 1
    /\ callers["q2"].pc = "answered"
    /\ ~callers["q2"].waited
    /\ callers["q2"].images # Null
    /\ callers["q2"].value = Null
    /\ callers["q2"].response.status = 503

(***************************************************************************)
(* Properties of the images of a listing over a re-scrape.                 *)
(***************************************************************************)
\* the file of the images directory an entry references holds the picture of
\* the entry's original URL
HoldsOwnPicture(entry) ==
    /\ Has(imageFiles, entry.local[2])
    /\ imageFiles[entry.local[2]] = entry.original

\* C30: after a successful re-scrape update of a listing, every image entry
\* kept from the pre-update listing still references a local file whose
\* content is the image of that entry's original URL, and no two entries with
\* different original URLs share a local path.
C30_RetainedEntriesKeepTheirFiles ==
    updates > 0 =>
        /\ \A k \in 1..Len(keptImages) :
              /\ \E i \in 1..Len(listingImages) : listingImages[i] = keptImages[k]
              /\ HoldsOwnPicture(keptImages[k])
        /\ \A i, j \in 1..Len(listingImages) :
              listingImages[i].original # listingImages[j].original
                  => listingImages[i].local # listingImages[j].local

====
